---- MODULE Spec2Model ----
(***************************************************************************)
(* Control-plane reconciliation of the financial RAG pipeline: the entity  *)
(* resolver, the freshness evaluator, the stable identity scheme, the      *)
(* mirror indexer and ControlPlaneManager.ensure_data_ready.               *)
(* Time is counted in hours since an arbitrary epoch (UTC).                *)
(***************************************************************************)
EXTENDS Integers, Sequences, FiniteSets, TLC

VARIABLES
    now,        \* wall clock, hours (datetime.now(timezone.utc))
    ticks,      \* number of clock advances so far
    source,     \* what the external sources currently publish
    registry,   \* _COMPANY_REGISTRY
    disk,       \* data/<TICKER>/... per entity
    index,      \* Pinecone index: namespace -> set of entries
    apiKey,     \* PINECONE_API_KEY present in the environment
    imported,   \* src.indexing.upsert_pinecone already imported
    calls,      \* number of ensure_data_ready calls so far
    call,       \* arguments and collaborator trace of the last call
    result,     \* what the last call returned (or that it did not return)
    probe,      \* last freshness evaluation made directly (FreshSpec)
    lookup,     \* last operation on the company registry (RegistrySpec)
    read,       \* last operation of the InferenceReader (ReaderSpec)
    procs,      \* reconciliation calls in progress, step by step (ParSpec)
    http        \* the SEC EDGAR request loop in progress (RetrySpec)

vars == <<now, ticks, source, registry, disk, index, apiKey, imported,
          calls, call, result, probe, lookup, read, procs, http>>

----------------------------------------------------------------------------
(* Bounds of the model *)

MaxTicks == 1
MaxCalls == 2
MaxVersion == 2
MaxStructured == 2
MaxRetries == 4

TickSteps == {24, 8760}

----------------------------------------------------------------------------
(* control_plane/config.py *)

STRUCTURED_COMPONENTS ==
    <<"price", "income_stmt", "balance_sheet", "cash_flow", "info">>

DefaultPolicyStructured == 24
DefaultPolicyUnstructured == 8760

FRESHNESS_POLICIES(component) ==
    CASE component = "price" -> 24
      [] component = "income_stmt" -> 2160
      [] component = "balance_sheet" -> 2160
      [] component = "cash_flow" -> 2160
      [] component = "info" -> 168
      [] component = "unstructured" -> 8760
      [] OTHER -> -1

PolicyGet(component, default) ==
    IF FRESHNESS_POLICIES(component) = -1 THEN default
    ELSE FRESHNESS_POLICIES(component)

----------------------------------------------------------------------------
(* Helpers on sequences *)

Range(s) == {s[i] : i \in 1..Len(s)}

Min(a, b) == IF a < b THEN a ELSE b

RECURSIVE SelectSeqBy(_, _)
SelectSeqBy(s, keep) ==
    IF s = <<>> THEN <<>>
    ELSE (IF Head(s) \in keep THEN <<Head(s)>> ELSE <<>>)
         \o SelectSeqBy(Tail(s), keep)

----------------------------------------------------------------------------
(* control_plane/company_registry.py *)

NoId == ""

NoInfo == [found |-> FALSE, ticker |-> "", jurisdiction |-> "None",
           cik |-> NoId, scrip_code |-> NoId]

CompanyInfo(t, j, c, s) ==
    [found |-> TRUE, ticker |-> t, jurisdiction |-> j,
     cik |-> c, scrip_code |-> s]

\* the entity keys of the model; "ZZZ" is in no registry
Tickers == {"AAPL", "TCS", "ZZZ"}

Upper(t) ==
    CASE t = "aapl" -> "AAPL"
      [] t = "tcs" -> "TCS"
      [] t = "zzz" -> "ZZZ"
      [] OTHER -> t

InitialRegistry ==
    [t \in {"AAPL", "TCS"} |->
        IF t = "AAPL" THEN CompanyInfo("AAPL", "US", "0000320193", NoId)
        ELSE CompanyInfo("TCS", "INDIA", NoId, "532540")]

\* as get_company_info, looking the key up as it was passed
get_company_info_exact(reg, ticker) ==
    IF ticker \in DOMAIN reg THEN reg[ticker] ELSE NoInfo

get_company_info(reg, ticker) ==
    IF Upper(ticker) \in DOMAIN reg THEN reg[Upper(ticker)] ELSE NoInfo

\* as register_company, without the two checks of the identifiers
register_company_unchecked(reg, ticker0, jurisdiction, cik, scrip_code) ==
    LET ticker == Upper(ticker0)
        info == CompanyInfo(ticker, jurisdiction, cik, scrip_code)
    IN  [raised |-> FALSE,
         info |-> info,
         registry |-> [t \in DOMAIN reg \cup {ticker} |->
                          IF t = ticker THEN info ELSE reg[t]]]

\* register_company: what it returns or that it raised, and the registry it
\* leaves
register_company(reg, ticker0, jurisdiction, cik, scrip_code) ==
    LET ticker == Upper(ticker0)
        info == CompanyInfo(ticker, jurisdiction, cik, scrip_code)
    IN  IF jurisdiction = "US" /\ cik = NoId
        THEN [raised |-> TRUE, info |-> NoInfo, registry |-> reg]
        ELSE IF jurisdiction = "INDIA" /\ scrip_code = NoId
        THEN [raised |-> TRUE, info |-> NoInfo, registry |-> reg]
        ELSE [raised |-> FALSE,
              info |-> info,
              registry |-> [t \in DOMAIN reg \cup {ticker} |->
                               IF t = ticker THEN info ELSE reg[t]]]

\* as resolve_company, with the registry entry returned as it is recorded
resolve_company_registry_wins(reg, ticker0, cik, scrip_code) ==
    LET ticker == Upper(ticker0)
        info == get_company_info(reg, ticker)
    IN  IF info.found THEN info
        ELSE IF cik # NoId THEN CompanyInfo(ticker, "US", cik, NoId)
        ELSE IF scrip_code # NoId
             THEN CompanyInfo(ticker, "INDIA", NoId, scrip_code)
        ELSE NoInfo

\* as resolve_company, resolving from the registry only
resolve_company_registry_only(reg, ticker0, cik, scrip_code) ==
    LET ticker == Upper(ticker0)
        info == get_company_info(reg, ticker)
    IN  IF info.found
        THEN LET i1 == IF cik # NoId
                       THEN CompanyInfo(info.ticker, "US", cik, info.scrip_code)
                       ELSE info
             IN  IF scrip_code # NoId
                 THEN CompanyInfo(i1.ticker, "INDIA", i1.cik, scrip_code)
                 ELSE i1
        ELSE NoInfo

\* as resolve_company, but an unknown key falls back to a US entity
resolve_company_fallback(reg, ticker0, cik, scrip_code) ==
    LET ticker == Upper(ticker0)
        info == get_company_info(reg, ticker)
    IN  IF info.found
        THEN LET i1 == IF cik # NoId
                       THEN CompanyInfo(info.ticker, "US", cik, info.scrip_code)
                       ELSE info
             IN  IF scrip_code # NoId
                 THEN CompanyInfo(i1.ticker, "INDIA", i1.cik, scrip_code)
                 ELSE i1
        ELSE IF scrip_code # NoId
             THEN CompanyInfo(ticker, "INDIA", NoId, scrip_code)
        ELSE CompanyInfo(ticker, "US", cik, NoId)

resolve_company(reg, ticker0, cik, scrip_code) ==
    LET ticker == Upper(ticker0)
        info == get_company_info(reg, ticker)
    IN  IF info.found
        THEN LET i1 == IF cik # NoId
                       THEN CompanyInfo(info.ticker, "US", cik, info.scrip_code)
                       ELSE info
                 i2 == IF scrip_code # NoId
                       THEN CompanyInfo(i1.ticker, "INDIA", i1.cik, scrip_code)
                       ELSE i1
             IN  i2
        ELSE IF cik # NoId THEN CompanyInfo(ticker, "US", cik, NoId)
        ELSE IF scrip_code # NoId
             THEN CompanyInfo(ticker, "INDIA", NoId, scrip_code)
        ELSE NoInfo

\* as registry_after_resolve, with the overrides written into the entry of
\* the registry instead of into a new CompanyInfo
registry_after_resolve_inplace(reg, ticker0, cik, scrip_code) ==
    [t \in DOMAIN reg |->
        IF t = Upper(ticker0) THEN resolve_company(reg, ticker0, cik, scrip_code)
        ELSE reg[t]]

\* the registry resolve_company leaves: every override builds a new
\* CompanyInfo, and _COMPANY_REGISTRY is read through get_company_info only
registry_after_resolve(reg, ticker0, cik, scrip_code) == reg

\* the record of an operation on the registry: its arguments, what it
\* returned, whether it raised, the registry it found, the last accepted
\* registration and the number of registrations so far
NoRegistration == [made |-> FALSE, info |-> NoInfo]

\* what the record of a resolution without overrides keeps of a resolution
\* of the same key right before it
Asked(l) ==
    [op |-> l.op, ticker |-> l.ticker, cik |-> l.cik,
     scrip_code |-> l.scrip_code]

NothingAsked ==
    [op |-> "none", ticker |-> "", cik |-> NoId, scrip_code |-> NoId]

Lookup(op, t, j, c, s, res, raised, before, last, n) ==
    [op |-> op, ticker |-> t, jurisdiction |-> j, cik |-> c, scrip_code |-> s,
     res |-> res, raised |-> raised, before |-> before, last |-> last,
     registered |-> n, prev |-> NothingAsked]

NoLookup ==
    [op |-> "none", ticker |-> "", jurisdiction |-> "None", cik |-> NoId,
     scrip_code |-> NoId, res |-> NoInfo, raised |-> FALSE,
     before |-> InitialRegistry, last |-> NoRegistration, registered |-> 0,
     prev |-> NothingAsked]

----------------------------------------------------------------------------
(* On-disk artifacts *)

\* the fetched-at field of an artifact file, as it is found in the file:
\*   "aware"       an ISO-8601 string with a UTC offset, instant t
\*   "naive"       an ISO-8601 string without offset, reading t
\*   "missing"     no _meta_fetched_at column / no "fetched_at" key
\*   "empty"       the field is there with no value (no row, "" or null)
\*   "unparseable" a value datetime.fromisoformat rejects
\*   "corrupt"     the file itself cannot be read or decoded
MetaKinds == {"aware", "naive", "missing", "empty", "unparseable", "corrupt"}

Meta(k, t) == [kind |-> k, t |-> t]

NoFile == [exists |-> FALSE, meta |-> Meta("missing", 0), ver |-> 0]

File(m, v) == [exists |-> TRUE, meta |-> m, ver |-> v]

\* a PDF of unstructured/raw: the part of its name before the first "_"
\* ("dash" YYYY-MM-DD, "compact" YYYYMMDD, "bad" anything else), the day it
\* names, and the file's modification time
Pdf(k, d, m) == [kind |-> k, d |-> d, mtime |-> m]

NoDir == [exists |-> FALSE, pdfs |-> {}]

\* the components whose artifacts the model keeps
ModelStructured == SubSeq(STRUCTURED_COMPONENTS, 1, MaxStructured)

EmptyEntity ==
    [folder |-> FALSE,
     structured |-> [c \in Range(ModelStructured) |-> NoFile],
     json |-> NoFile,
     raw |-> NoDir]

----------------------------------------------------------------------------
(* control_plane/freshness.py *)

NoTime == [some |-> FALSE, t |-> 0, raised |-> FALSE]

SomeTime(t) == [some |-> TRUE, t |-> t, raised |-> FALSE]

\* datetime.fromisoformat on the stored field: raises on anything that is not
\* an ISO-8601 string
fromisoformat_raises(meta) == meta.kind \notin {"aware", "naive"}

Raised == [some |-> FALSE, t |-> 0, raised |-> TRUE]

\* the body of the try block, lines 47-52
parquet_try(file) ==
    IF file.meta.kind = "corrupt" THEN Raised          \* pd.read_parquet
    ELSE IF file.meta.kind = "missing" THEN NoTime     \* column not in df
    ELSE IF file.meta.kind = "empty" THEN Raised       \* .iloc[0] of no row
    ELSE IF fromisoformat_raises(file.meta) THEN Raised
    ELSE SomeTime(file.meta.t)

\* as get_fetched_at_from_parquet, without the except clause
get_fetched_at_from_parquet_noexcept(file) == parquet_try(file)

get_fetched_at_from_parquet(file) ==
    IF parquet_try(file).raised THEN NoTime            \* except Exception
    ELSE parquet_try(file)

\* the body of the try block, lines 68-75
json_try(file) ==
    IF file.meta.kind = "corrupt" THEN Raised          \* open / json.load
    ELSE IF file.meta.kind \in {"missing", "empty"} THEN NoTime  \* falsy
    ELSE IF fromisoformat_raises(file.meta) THEN Raised
    ELSE SomeTime(file.meta.t)

get_fetched_at_from_json(file) ==
    IF json_try(file).raised THEN NoTime               \* except Exception
    ELSE json_try(file)

SetMax(S) == CHOOSE x \in S : \A y \in S : y <= x

\* datetime.strptime(date_part, fmt) for fmt in ["%Y-%m-%d", "%Y%m%d"]
ParsedDates(pdfs) == {p.d : p \in {q \in pdfs : q.kind \in {"dash", "compact"}}}

\* as get_latest_pdf_date, taking the newest modification time whatever the
\* names of the files say
get_latest_pdf_date_mtime(dir) ==
    IF ~dir.exists THEN NoTime
    ELSE IF dir.pdfs = {} THEN NoTime
    ELSE SomeTime(SetMax({p.mtime : p \in dir.pdfs}))

get_latest_pdf_date(dir) ==
    IF ~dir.exists THEN NoTime
    ELSE IF dir.pdfs = {} THEN NoTime
    ELSE IF ParsedDates(dir.pdfs) # {} THEN SomeTime(SetMax(ParsedDates(dir.pdfs)))
    ELSE SomeTime(SetMax({p.mtime : p \in dir.pdfs}))

FreshnessResult(c, ex, fr, ha, fa, ag, po, rs) ==
    [component |-> c, exists |-> ex, is_fresh |-> fr, has_age |-> ha,
     fetched_at |-> fa, age |-> ag, policy |-> po, raised |-> rs]

\* as Evaluate, with an artifact whose age equals the policy still fresh
Evaluate_inclusive(component, fetched_at, policy, clock) ==
    IF fetched_at.raised
    THEN FreshnessResult(component, FALSE, FALSE, FALSE, 0, 0, policy, TRUE)
    ELSE IF ~fetched_at.some
    THEN FreshnessResult(component, TRUE, FALSE, FALSE, 0, 0, policy, FALSE)
    ELSE LET age == clock - fetched_at.t
         IN  FreshnessResult(component, TRUE, age <= policy, TRUE,
                             fetched_at.t, age, policy, FALSE)

\* the common tail of both checks: lines 156-179 and 229-252
Evaluate(component, fetched_at, policy, clock) ==
    IF fetched_at.raised
    THEN FreshnessResult(component, FALSE, FALSE, FALSE, 0, 0, policy, TRUE)
    ELSE IF ~fetched_at.some
    THEN FreshnessResult(component, TRUE, FALSE, FALSE, 0, 0, policy, FALSE)
    ELSE LET age == clock - fetched_at.t
         IN  FreshnessResult(component, TRUE, age < policy, TRUE,
                             fetched_at.t, age, policy, FALSE)

\* base_dir / ticker / "structured" / f"{component}.parquet": the file of any
\* component name, NoFile where the directory holds none of that name
parquet_path(ent, component) ==
    IF component \in DOMAIN ent.structured THEN ent.structured[component]
    ELSE NoFile

check_structured_freshness(ent, component, clock) ==
    LET policy == PolicyGet(component, DefaultPolicyStructured)
        file == parquet_path(ent, component)
    IN  IF ~file.exists
        THEN FreshnessResult(component, FALSE, FALSE, FALSE, 0, 0, policy, FALSE)
        ELSE Evaluate(component, get_fetched_at_from_parquet(file), policy, clock)

check_unstructured_freshness(ent, jurisdiction, clock) ==
    LET policy == PolicyGet("unstructured", DefaultPolicyUnstructured)
        missing == FreshnessResult("unstructured", FALSE, FALSE, FALSE, 0, 0,
                                   policy, FALSE)
    IN  IF jurisdiction = "US"
        THEN IF ~ent.json.exists THEN missing
             ELSE Evaluate("unstructured", get_fetched_at_from_json(ent.json),
                           policy, clock)
        ELSE IF ~ent.raw.exists \/ ent.raw.pdfs = {} THEN missing
             ELSE Evaluate("unstructured", get_latest_pdf_date(ent.raw),
                           policy, clock)

check_component_freshness(ent, component, jurisdiction, clock) ==
    IF component = "unstructured"
    THEN check_unstructured_freshness(ent, jurisdiction, clock)
    ELSE check_structured_freshness(ent, component, clock)

check_all_freshness(ent, jurisdiction, components, clock) ==
    [c \in Range(components) |->
        check_component_freshness(ent, c, jurisdiction, clock)]

ticker_folder_exists(d, ticker) == d[ticker].folder

\* as disk_after_freshness, with the directories of the entity created on
\* the way to the artifact
disk_after_freshness_mkdir(d, ticker) ==
    [d EXCEPT ![ticker].folder = TRUE, ![ticker].raw.exists = TRUE]

\* the disk a freshness evaluation leaves: the functions of freshness.py
\* call exists, glob, getmtime, read_parquet and open(path, "r") only
disk_after_freshness(d, ticker) == d

----------------------------------------------------------------------------
(* Content published by the external sources *)

\* A text is <<what it says, revision, length after strip()>>.
Text(name, rev, n) == <<name, rev, n>>

StrippedLen(text) == text[3]

\* the 10-K narrative of revision v as RecursiveCharacterTextSplitter cuts
\* it: the business section does not change between revisions, the risk
\* section does, odd revisions end with a management section, and every
\* revision has a signature block too short to be indexed
split_text(v) ==
    <<Text("business", 0, 800), Text("risk", v, 800)>>
    \o (IF v % 2 = 1 THEN <<Text("mdna", v, 800)>> ELSE <<>>)
    \o <<Text("signature", v, 12)>>

\* the records of structured/<component>: even revisions restate period
\* 2023 and add period 2024, odd revisions above 1 drop period 2023
Record(rt, date, text) == [report_type |-> rt, date |-> date, text |-> text]

\* a record["text"] that is no str: a JSON null
NotAString == <<"None", 0, 0>>

\* revisions that no fetch writes, in which the file of a component holds,
\* besides the record of period 2024, a record of period 2023 whose text is
\* null (NullRev) or has v - ShortRev characters once stripped
NullRev == 99

ShortRev == 100

OddRevs == {NullRev, ShortRev, ShortRev + 50, ShortRev + 51}

records(component, v) ==
    IF v = NullRev
    THEN <<Record(component, 2023, NotAString),
           Record(component, 2024, Text(component, v, 400))>>
    ELSE IF v >= ShortRev
    THEN <<Record(component, 2023, Text(component, v, v - ShortRev)),
           Record(component, 2024, Text(component, v, 400))>>
    ELSE (IF v <= 2 THEN <<Record(component, 2023, Text(component, v, 400))>>
          ELSE <<>>)
         \o (IF v >= 2
             THEN <<Record(component, 2024, Text(component, v, 400))>>
             ELSE <<>>)

----------------------------------------------------------------------------
(* indexing/chunking.py *)

MAX_CHUNKS_PER_DOC == 50

\* hashlib.sha1(text.encode("utf-8")).hexdigest()[:12]: a fingerprint of the
\* text and of nothing else
sha1_12(text) == ToString(text)

\* as stable_chunk_id, with the time of the run in place of the fingerprint
stable_chunk_id_clock(ticker, idx, text) ==
    ticker \o "_" \o ToString(idx) \o "_" \o ToString(now)

\* as stable_chunk_id, with a per-run counter in place of the fingerprint
stable_chunk_id_counter(ticker, idx, text) ==
    ticker \o "_" \o ToString(idx) \o "_" \o ToString(calls)

\* f"{ticker}_{idx}_{h}"
stable_chunk_id(ticker, idx, text) ==
    ticker \o "_" \o ToString(idx) \o "_" \o sha1_12(text)

chunk_document(doc) ==
    LET splits == split_text(doc.ver)
        n == Min(Len(splits), MAX_CHUNKS_PER_DOC)
    IN  [i \in 1..n |->
            [id |-> stable_chunk_id(doc.ticker, i - 1, splits[i]),
             text |-> splits[i]]]

----------------------------------------------------------------------------
(* indexing/upsert_pinecone.py *)

MinTextLen == 50

\* isinstance(text, str)
IsStr(text) == text # NotAString

valid_text(text) == IsStr(text) /\ StrippedLen(text) > MinTextLen

\* index.upsert(vectors, namespace): an entry replaces the entry of the same
\* id, nothing is deleted
Upsert(ns, entries) ==
    {e \in ns : \A n \in entries : n.id # e.id} \cup entries

\* the entries index_unstructured derives from unstructured/data.json
unstructured_entries(ticker, ent) ==
    IF ~ent.json.exists THEN {}
    ELSE LET chunks == chunk_document([ticker |-> ticker, ver |-> ent.json.ver])
         IN  {[id |-> chunks[i].id, text |-> chunks[i].text] :
                 i \in {j \in 1..Len(chunks) : valid_text(chunks[j].text)}}

\* every record of every file of structured/
AllRecords(ent) ==
    UNION {Range(records(c, ent.structured[c].ver)) :
             c \in {x \in DOMAIN ent.structured : ent.structured[x].exists}}

\* as doc_id, with the number of the run added to the three values
doc_id_run(ticker, report_type, date) ==
    ticker \o "_" \o report_type \o "_" \o ToString(date)
        \o "_" \o ToString(calls)

\* f"{ticker}_{report_type}_{date}"
doc_id(ticker, report_type, date) ==
    ticker \o "_" \o report_type \o "_" \o ToString(date)

\* the entries index_narrated_financials derives: one per (report_type,
\* date), with the two in its metadata; a group of the model holds one
\* record, so the joined text is that record's text
narrated_entries(ticker, ent) ==
    {[id |-> doc_id(ticker, r.report_type, r.date), text |-> r.text,
      report_type |-> r.report_type, fiscal_date |-> r.date] :
        r \in {x \in AllRecords(ent) : valid_text(x.text)}}

index_unstructured(ns, ticker, ent) ==
    Upsert(ns, unstructured_entries(ticker, ent))

\* "\n".join(parts) raises TypeError when a part is no str; it runs for
\* every group before valid_text is asked and before anything is upserted
join_raises(ent) == \E r \in AllRecords(ent) : ~IsStr(r.text)

index_narrated_financials(ns, ticker, ent) ==
    IF join_raises(ent) THEN ns
    ELSE Upsert(ns, narrated_entries(ticker, ent))

\* index_all_data, and what it leaves when it raises after its first half
index_all_data(ns, ticker, ent) ==
    index_narrated_financials(index_unstructured(ns, ticker, ent), ticker, ent)

\* what the namespace of an entity holds when it mirrors the disk
Derivable(ticker, ent) ==
    unstructured_entries(ticker, ent) \cup narrated_entries(ticker, ent)

----------------------------------------------------------------------------
(* Fetch collaborators *)

Day(t) == 24 * (t \div 24)

\* src.structured.data.fetch_and_store_stock_data: writes the component's
\* artifact with the content now published and the time of the fetch
fetch_and_store_stock_data(ent, component, clock, src) ==
    [ent EXCEPT !.folder = TRUE,
                !.structured[component] = File(Meta("aware", clock), src.ver)]

\* ingestion_unstructured_foreign.ingest_sec_unstructured
ingest_sec_unstructured(ent, clock, src) ==
    [ent EXCEPT !.folder = TRUE,
                !.json = File(Meta("aware", clock), src.ver)]

TOTAL_HISTORY_DAYS == 365

\* BSE is asked for the filings of the last TOTAL_HISTORY_DAYS days
Listed(src, clock) == clock - src.at <= TOTAL_HISTORY_DAYS * 24

\* ingestion_unstructured_indian.process_company: a listed filing is saved
\* as <filing day>_<subject>.pdf unless a file of that name is there
process_company(ent, clock, src) ==
    LET name == Pdf("compact", Day(src.at), 0)
        there == \E p \in ent.raw.pdfs : p.kind = name.kind /\ p.d = name.d
        new == IF Listed(src, clock) /\ ~there
               THEN {Pdf("compact", Day(src.at), clock)} ELSE {}
    IN  [ent EXCEPT !.folder = TRUE,
                    !.raw = [exists |-> TRUE, pdfs |-> ent.raw.pdfs \cup new]]

----------------------------------------------------------------------------
(* unstructured_data/ingestion_unstructured_foreign.py: the request loops   *)
(* of get_latest_10k_metadata and find_real_10k_html                        *)

NoValue == [found |-> FALSE]

\* no request loop is running and none has run
NoHttp ==
    [fn |-> "none", cik |-> "", pc |-> "idle", retries |-> 0, attempt |-> 0,
     requests |-> 0, slept |-> <<>>, log |-> <<>>, value |-> NoValue,
     error |-> <<>>]

\* one row of filings["recent"]
Filing(form, acc, date) ==
    [form |-> form, accessionNumber |-> acc, filingDate |-> date]

Quarterly == Filing("10-Q", <<"1", "-", "2", "4">>, 3)

Annual == Filing("10-K", <<"2", "-", "2", "4">>, 2)

Amended == Filing("10-K/A", <<"3", "-", "2", "4">>, 2)

Earlier == Filing("10-K", <<"4", "-", "2", "3">>, 1)

\* acc.replace("-", "")
NoDashes(acc) == SelectSeq(acc, LAMBDA ch : ch # "-")

\* the zip loop of get_latest_10k_metadata: the first row whose form is
\* exactly "10-K"
latest_10k(recent) ==
    LET annual == SelectSeq(recent, LAMBDA f : f.form = "10-K")
    IN  IF annual = <<>> THEN NoValue
        ELSE [found |-> TRUE,
              accession |-> NoDashes(annual[1].accessionNumber),
              filing_date |-> annual[1].filingDate]

\* the names of the files of a filing's directory, in the order of Python's
\* string comparison
DirectoryNames == <<"ex21.htm", "ixviewer.htm", "main.htm", "r_xbrl.html",
                    "report.xml">>

NameRank(name) ==
    CHOOSE i \in 1..Len(DirectoryNames) : DirectoryNames[i] = name

\* name.endswith((".htm", ".html"))
IsHtml(name) == name \in {"ex21.htm", "ixviewer.htm", "main.htm", "r_xbrl.html"}

\* "ix" in name or "xbrl" in name
IsInline(name) == name \in {"ixviewer.htm", "r_xbrl.html"}

\* int(f.get("size", 0)), 0 when it is no number
NoSize == -1

SizeOf(item) == IF item.size = NoSize THEN 0 ELSE item.size

candidates(items) ==
    {<<SizeOf(f), f.name>> : f \in {x \in items : IsHtml(x.name)
                                                   /\ ~IsInline(x.name)}}

\* max(candidates) over (size, name) tuples
best_candidate(cands) ==
    CHOOSE c \in cands :
        \A d \in cands :
            \/ d[1] < c[1]
            \/ d[1] = c[1] /\ NameRank(d[2]) <= NameRank(c[2])

real_10k_html(items) ==
    IF candidates(items) = {} THEN NoValue
    ELSE [found |-> TRUE, name |-> best_candidate(candidates(items))[2]]

\* what one requests.get brings: a RequestException (connection, timeout,
\* the HTTPError of raise_for_status), a body without the keys the function
\* reads, or a body with them
RequestFailed == [kind |-> "RequestException", body |-> <<>>]

Malformed == [kind |-> "KeyError", body |-> <<>>]

Response(body) == [kind |-> "ok", body |-> body]

MetadataResponses ==
    {RequestFailed, Malformed}
    \cup {Response(b) : b \in {<<>>, <<Quarterly>>, <<Amended>>, <<Annual>>,
                               <<Quarterly, Annual, Earlier>>,
                               <<Earlier, Annual>>}}

DirectoryItems ==
    {[name |-> "main.htm", size |-> 20], [name |-> "ex21.htm", size |-> 20],
     [name |-> "ixviewer.htm", size |-> 30],
     [name |-> "report.xml", size |-> NoSize]}

IndexResponses ==
    {RequestFailed, Malformed}
    \cup {Response(items) : items \in SUBSET DirectoryItems}

Parsed(fn, body) ==
    IF fn = "get_latest_10k_metadata" THEN latest_10k(body)
    ELSE real_10k_html(body)

NotFoundMessage(fn) ==
    IF fn = "get_latest_10k_metadata" THEN "No 10-K filing found."
    ELSE "No narrative HTML found."

FailedMessage(fn) ==
    IF fn = "get_latest_10k_metadata" THEN "Failed to fetch SEC metadata"
    ELSE "Failed to find 10-K HTML"

\* what the try block raises on a response: nothing, the exception of the
\* request, or the RuntimeError of a body that holds nothing to return
RaisedInTry(fn, resp) ==
    IF resp.kind # "ok" THEN <<resp.kind>>
    ELSE IF Parsed(fn, resp.body).found THEN <<>>
    ELSE <<"RuntimeError", NotFoundMessage(fn)>>

\* as Caught, with `except Exception` for a handler
Caught_any(raised) == TRUE

\* except requests.exceptions.RequestException
Caught(raised) == raised[1] = "RequestException"

\* range(retries) has another value
MoreAttempts(h) == h.attempt < h.retries

\* one pass of the for loop: the request, then the return, the handler, or
\* the exception that leaves the function
request_attempt(h, resp) ==
    LET raised == RaisedInTry(h.fn, resp)
        made == [h EXCEPT !.requests = @ + 1, !.log = Append(@, resp.kind)]
    IN  IF raised = <<>>
        THEN [made EXCEPT !.pc = "returned",
                          !.value = Parsed(h.fn, resp.body)]
        ELSE IF Caught(raised)
        THEN IF h.attempt < h.retries - 1
             THEN [made EXCEPT !.slept = Append(@, 2 ^ h.attempt),
                               !.attempt = @ + 1]
             ELSE [made EXCEPT !.pc = "raised",
                               !.error = <<"RuntimeError", FailedMessage(h.fn),
                                           h.retries>>]
        ELSE [made EXCEPT !.pc = "raised", !.error = raised]

\* the statement after the loop
after_loop(h) ==
    [h EXCEPT !.pc = "raised",
              !.error = <<"RuntimeError", NotFoundMessage(h.fn)>>]

Begin(fn, cik, retries) ==
    [NoHttp EXCEPT !.fn = fn, !.cik = cik, !.pc = "loop",
                   !.retries = retries]

----------------------------------------------------------------------------
(* control_plane/manager.py *)

DataChecklist(st, un) == [structured |-> st, unstructured |-> un]

\* as get_all_components, with the unstructured component first
get_all_components_unstructured_first(checklist) ==
    (IF checklist.unstructured THEN <<"unstructured">> ELSE <<>>)
    \o checklist.structured

get_all_components(checklist) ==
    checklist.structured
    \o (IF checklist.unstructured THEN <<"unstructured">> ELSE <<>>)

ControlPlaneResult(t, j, fe, cc, cu, ci, er) ==
    [returned |-> TRUE, ticker |-> t, jurisdiction |-> j, folder_existed |-> fe,
     components_checked |-> cc, components_updated |-> cu,
     components_indexed |-> ci, errors |-> er]

\* the call did not return: an exception or exit reached the caller
Escaped ==
    [returned |-> FALSE, ticker |-> "", jurisdiction |-> "None",
     folder_existed |-> FALSE, components_checked |-> <<>>,
     components_updated |-> <<>>, components_indexed |-> <<>>,
     errors |-> <<>>]

\* as success, true of every result that was returned
success_always(r) == r.returned

\* as success, without the partial-success disjunct
success_strict(r) == Len(r.errors) = 0

success(r) == Len(r.errors) = 0 \/ Len(r.components_indexed) > 0

\* _fetch_unstructured raises before it calls the worker
IdentifierMissing(info) ==
    IF info.jurisdiction = "US" THEN info.cik = NoId
    ELSE info.scrip_code = NoId

\* _fetch_structured / _fetch_unstructured when the worker returns
FetchOne(ent, info, component, clock, src) ==
    IF component = "unstructured"
    THEN IF info.jurisdiction = "US"
         THEN ingest_sec_unstructured(ent, clock, src)
         ELSE process_company(ent, clock, src)
    ELSE fetch_and_store_stock_data(ent, component, clock, src)

FetchRaises(info, component, failing) ==
    \/ component \in failing
    \/ component = "unstructured" /\ IdentifierMissing(info)

Step(op, component, ok) == [op |-> op, component |-> component, ok |-> ok]

\* as FetchLoop, with one try around the whole loop: the first failure ends it
RECURSIVE FetchLoopAbort(_, _, _, _, _, _)
FetchLoopAbort(acc, info, todo, failing, clock, src) ==
    IF todo = <<>> THEN acc
    ELSE LET c == Head(todo)
         IN  IF FetchRaises(info, c, failing)
             THEN [acc EXCEPT !.errors = Append(@, <<"fetching", c>>),
                              !.trace = Append(@, Step("fetch", c, FALSE))]
             ELSE FetchLoopAbort(
                    [ent |-> FetchOne(acc.ent, info, c, clock, src),
                     updated |-> Append(acc.updated, c),
                     errors |-> acc.errors,
                     trace |-> Append(acc.trace, Step("fetch", c, TRUE))],
                    info, Tail(todo), failing, clock, src)

\* as FetchLoop, with a second attempt at a fetch that raised
RECURSIVE FetchLoop_retry(_, _, _, _, _, _)
FetchLoop_retry(acc, info, todo, failing, clock, src) ==
    IF todo = <<>> THEN acc
    ELSE LET c == Head(todo)
             bad == FetchRaises(info, c, failing)
             next ==
                 [ent |-> IF bad THEN acc.ent
                          ELSE FetchOne(acc.ent, info, c, clock, src),
                  updated |-> IF bad THEN acc.updated
                              ELSE Append(acc.updated, c),
                  errors |-> IF bad THEN Append(acc.errors, <<"fetching", c>>)
                             ELSE acc.errors,
                  trace |-> IF bad
                            THEN acc.trace \o <<Step("fetch", c, FALSE),
                                                Step("fetch", c, FALSE)>>
                            ELSE Append(acc.trace, Step("fetch", c, TRUE))]
         IN  FetchLoop_retry(next, info, Tail(todo), failing, clock, src)

\* as FetchLoop, with a handler that records nothing about the failure
RECURSIVE FetchLoop_silent(_, _, _, _, _, _)
FetchLoop_silent(acc, info, todo, failing, clock, src) ==
    IF todo = <<>> THEN acc
    ELSE LET c == Head(todo)
             bad == FetchRaises(info, c, failing)
             next ==
                 [ent |-> IF bad THEN acc.ent
                          ELSE FetchOne(acc.ent, info, c, clock, src),
                  updated |-> IF bad THEN acc.updated
                              ELSE Append(acc.updated, c),
                  errors |-> acc.errors,
                  trace |-> Append(acc.trace, Step("fetch", c, ~bad))]
         IN  FetchLoop_silent(next, info, Tail(todo), failing, clock, src)

\* the two try/except loops of _full_onboarding and _incremental_update over
\* the components to fetch, in order; failing is the set of components whose
\* worker raises in this call
RECURSIVE FetchLoop(_, _, _, _, _, _)
FetchLoop(acc, info, todo, failing, clock, src) ==
    IF todo = <<>> THEN acc
    ELSE LET c == Head(todo)
             bad == FetchRaises(info, c, failing)
             next ==
                 [ent |-> IF bad THEN acc.ent
                          ELSE FetchOne(acc.ent, info, c, clock, src),
                  updated |-> IF bad THEN acc.updated
                              ELSE Append(acc.updated, c),
                  errors |-> IF bad THEN Append(acc.errors, <<"fetching", c>>)
                             ELSE acc.errors,
                  trace |-> Append(acc.trace, Step("fetch", c, ~bad))]
         IN  FetchLoop(next, info, Tail(todo), failing, clock, src)

\* as NeedsFetch, without the test of the Freshness Result
NeedsFetch_all(freshness, components) == components

\* the components _incremental_update fetches: missing or stale
NeedsFetch(freshness, components) ==
    SelectSeqBy(components,
                {c \in Range(components) :
                    ~freshness[c].exists \/ ~freshness[c].is_fresh})

\* _index_all: the import of upsert_pinecone, then index_all_data.
\* outcome is what the indexer does in this call:
\*   "ok"        index_all_data returns
\*   "raise"     an Exception before anything is upserted
\*   "raise_mid" an Exception after index_unstructured has upserted
\*   "exit"      the module-level sys.exit(1): no PINECONE_API_KEY at import
IndexOutcomes(key, imp) ==
    IF ~imp /\ ~key THEN {"exit"} ELSE {"ok", "raise", "raise_mid"}

IndexAfter(ns, ticker, ent, outcome) ==
    CASE outcome = "ok" -> index_all_data(ns, ticker, ent)
      [] outcome = "raise_mid" -> index_unstructured(ns, ticker, ent)
      [] OTHER -> ns

\* as IndexStep, reporting as indexed the first updated component only
IndexStep_first(fetched, outcome) ==
    IF fetched.updated = <<>>
    THEN [indexed |-> <<>>, errors |-> fetched.errors, trace |-> fetched.trace]
    ELSE [indexed |-> IF outcome = "ok" THEN <<Head(fetched.updated)>>
                      ELSE <<>>,
          errors |-> IF outcome = "ok" THEN fetched.errors
                     ELSE Append(fetched.errors, <<"indexing">>),
          trace |-> Append(fetched.trace, Step("index", "", outcome = "ok"))]

\* as IndexStep, without the test of the updated list
IndexStep_always(fetched, outcome) ==
    [indexed |-> IF outcome = "ok" THEN fetched.updated ELSE <<>>,
     errors |-> IF outcome \in {"ok", "none"} THEN fetched.errors
                ELSE Append(fetched.errors, <<"indexing">>),
     trace |-> Append(fetched.trace, Step("index", "", outcome = "ok"))]

\* the tail of _full_onboarding and _incremental_update: lines 203-212 and
\* 255-266
IndexStep(fetched, outcome) ==
    IF fetched.updated = <<>>
    THEN [indexed |-> <<>>, errors |-> fetched.errors, trace |-> fetched.trace]
    ELSE [indexed |-> IF outcome = "ok" THEN fetched.updated ELSE <<>>,
          errors |-> IF outcome = "ok" THEN fetched.errors
                     ELSE Append(fetched.errors, <<"indexing">>),
          trace |-> Append(fetched.trace, Step("index", "", outcome = "ok"))]

\* as DiskAfter, undoing the fetches of a call whose indexing failed
DiskAfterRollback(before, fetched, outcome) ==
    IF outcome \in {"raise", "raise_mid"} THEN before ELSE fetched.ent

\* what the call leaves on disk: the except handlers undo nothing
DiskAfter(before, fetched, outcome) == fetched.ent

\* as _full_onboarding, without the unstructured block
_full_onboarding_structured(ent, info, checklist, failing, clock, src) ==
    FetchLoop([ent |-> ent, updated |-> <<>>, errors |-> <<>>, trace |-> <<>>],
              info, checklist.structured, failing, clock, src)

_full_onboarding(ent, info, checklist, failing, clock, src) ==
    FetchLoop([ent |-> ent, updated |-> <<>>, errors |-> <<>>, trace |-> <<>>],
              info, get_all_components(checklist), failing, clock, src)

_incremental_update(ent, info, checklist, freshness, failing, clock, src) ==
    FetchLoop([ent |-> ent, updated |-> <<>>, errors |-> <<>>,
               trace |-> [i \in 1..Len(get_all_components(checklist)) |->
                            Step("freshness", get_all_components(checklist)[i],
                                 TRUE)]],
              info, NeedsFetch(freshness, get_all_components(checklist)),
              failing, clock, src)

\* the inputs of the calls the model makes: a US and an INDIA entity of the
\* registry, an unknown key, and the unknown key with a CIK supplied
Request(t, cik, sc) == [ticker |-> t, cik |-> cik, scrip_code |-> sc]

Requests ==
    {Request("AAPL", NoId, NoId), Request("TCS", NoId, NoId),
     Request("ZZZ", NoId, NoId), Request("ZZZ", "0000999999", NoId)}

Checklists ==
    {DataChecklist(st, un) :
        st \in {<<>>, ModelStructured}, un \in BOOLEAN}

\* as Branch, with force_refresh ignored
Branch_missing_only(folder_existed, force_refresh) ==
    IF ~folder_existed THEN "full" ELSE "incremental"

Branch(folder_existed, force_refresh) ==
    IF ~folder_existed \/ force_refresh THEN "full" ELSE "incremental"

\* what a call record keeps of the call before it
Summary(c) ==
    [ticker |-> c.ticker, checklist |-> c.checklist, cik |-> c.cik,
     scrip_code |-> c.scrip_code, branch |-> c.branch, indexer |-> c.indexer]

Call(t, cl, cik, sc, fr, br, at, outcome, trace, before) ==
    [ticker |-> t, checklist |-> cl, cik |-> cik, scrip_code |-> sc,
     force_refresh |-> fr, branch |-> br, at |-> at, indexer |-> outcome,
     trace |-> trace, before |-> before, prev |-> Summary(call)]

ensure_data_ready(ticker0, checklist, cik, scrip_code, force_refresh) ==
    LET ticker == Upper(ticker0)
        info == resolve_company(registry, ticker, cik, scrip_code)
        ent == disk[ticker]
        folder_existed == ticker_folder_exists(disk, ticker)
        branch == Branch(folder_existed, force_refresh)
        all == get_all_components(checklist)
        freshness == check_all_freshness(ent, info.jurisdiction, all, now)
        todo == IF branch = "full" THEN all ELSE NeedsFetch(freshness, all)
    IN  /\ calls < MaxCalls
        /\ calls' = calls + 1
        /\ UNCHANGED <<now, ticks, source, registry, apiKey, probe, lookup, read, procs,
                       http>>
        /\ IF ~info.found
           THEN /\ result' = ControlPlaneResult(ticker, "None", FALSE, <<>>,
                                                <<>>, <<>>,
                                                <<<<"Unknown ticker", ticker>>>>)
                /\ call' = Call(ticker0, checklist, cik, scrip_code,
                                force_refresh, "unknown", now, "none",
                                <<Step("resolve", "", FALSE)>>, ent)
                /\ UNCHANGED <<disk, index, imported, http>>
           ELSE \E failing \in SUBSET Range(todo) :
                  LET fetched ==
                        IF branch = "full"
                        THEN _full_onboarding(ent, info, checklist, failing,
                                              now, source)
                        ELSE _incremental_update(ent, info, checklist,
                                                 freshness, failing, now,
                                                 source)
                      outcomes == IF fetched.updated = <<>> THEN {"none"}
                                  ELSE IndexOutcomes(apiKey, imported)
                  IN  \E outcome \in outcomes :
                        LET done == IndexStep(fetched, outcome)
                            checked ==
                              [c \in Range(all) |->
                                 IF branch = "full" THEN FALSE
                                 ELSE freshness[c].is_fresh]
                        IN  /\ disk' = [disk EXCEPT ![ticker] =
                                          DiskAfter(ent, fetched, outcome)]
                            /\ index' = [index EXCEPT ![ticker] =
                                           IndexAfter(@, ticker, fetched.ent,
                                                      outcome)]
                            /\ imported' = (imported \/ outcome \in
                                              {"ok", "raise", "raise_mid"})
                            /\ result' =
                                 IF outcome = "exit" THEN Escaped
                                 ELSE ControlPlaneResult(
                                        ticker, info.jurisdiction,
                                        folder_existed, checked,
                                        fetched.updated, done.indexed,
                                        done.errors)
                            /\ call' = Call(ticker0, checklist, cik,
                                            scrip_code, force_refresh, branch,
                                            now, outcome,
                                            <<Step("resolve", "", TRUE),
                                              Step("exists", "",
                                                   folder_existed)>>
                                              \o done.trace,
                                            ent)

----------------------------------------------------------------------------
(* inference_plane/reader.py *)

\* the last operation of the reader: whether a reader was constructed, the
\* operation and its arguments, the matches returned and their number (or
\* the vector count), and whether the operation raised
Read(ready, op, t, cat, k, matches, count, raised) ==
    [ready |-> ready, op |-> op, ticker |-> t, category |-> cat, top_k |-> k,
     matches |-> matches, count |-> count, raised |-> raised]

NoRead == Read(FALSE, "none", "", "", 0, {}, 0, FALSE)

\* metadata["data_category"] of an entry: "narrative" for the chunks of
\* data.json, "narrated_numeric" for the financial summaries
data_category(e) ==
    IF e.text[1] \in {"business", "risk", "mdna", "signature"}
    THEN "narrative" ELSE "narrated_numeric"

NoFilter == ""

\* as pinecone_after_read, with the entries read dropped from the index
pinecone_after_read_evict(idx) == [t \in DOMAIN idx |-> {}]

\* the index after index.query or index.describe_index_stats: both are reads
pinecone_after_read(idx) == idx

\* index.query(vector, top_k, namespace, filter): the answers it can give,
\* top_k entries of the namespace that pass the filter, or all of them when
\* there are fewer
query(idx, namespace, top_k, filter) ==
    LET ns == IF namespace \in DOMAIN idx THEN idx[namespace] ELSE {}
        passing == {e \in ns : filter = NoFilter \/ data_category(e) = filter}
    IN  IF Cardinality(passing) <= top_k THEN {passing}
        ELSE {m \in SUBSET passing : Cardinality(m) = top_k}

\* index.describe_index_stats()["namespaces"]: the vector count of every
\* namespace that holds a vector
describe_index_stats(idx) ==
    [t \in {n \in DOMAIN idx : idx[n] # {}} |-> Cardinality(idx[t])]

\* InferenceReader.__init__
NewReader ==
    /\ read' = [NoRead EXCEPT !.ready = apiKey, !.op = "init",
                              !.raised = ~apiKey]
    /\ UNCHANGED <<now, ticks, source, registry, disk, index, apiKey,
                   imported, calls, call, result, probe, lookup, procs, http>>

\* InferenceReader.retrieve; fails when the Pinecone call raises
retrieve(op, ticker0, top_k, filter) ==
    LET ticker == Upper(ticker0)
    IN  /\ read.ready
        /\ \E fails \in BOOLEAN :
              \E matches \in query(index, ticker, top_k, filter) :
                /\ read' = IF fails
                           THEN Read(TRUE, op, ticker0, filter, top_k, {}, 0,
                                     TRUE)
                           ELSE Read(TRUE, op, ticker0, filter, top_k, matches,
                                     Cardinality(matches), FALSE)
                /\ index' = IF fails THEN index ELSE pinecone_after_read(index)
        /\ UNCHANGED <<now, ticks, source, registry, disk, apiKey, imported,
                       calls, call, result, probe, lookup, procs, http>>

\* InferenceReader.retrieve_by_category
retrieve_by_category(ticker0, category, top_k) ==
    retrieve("retrieve_by_category", ticker0, top_k, category)

\* InferenceReader.check_namespace_exists: count is 1 for True, 0 for False
check_namespace_exists(ticker0) ==
    LET ticker == Upper(ticker0)
        stats == describe_index_stats(index)
    IN  /\ read.ready
        /\ \E fails \in BOOLEAN :
              /\ read' = Read(TRUE, "check_namespace_exists", ticker0, NoFilter,
                              0, {},
                              IF ~fails /\ ticker \in DOMAIN stats
                                 /\ stats[ticker] > 0
                              THEN 1 ELSE 0,
                              FALSE)
              /\ index' = IF fails THEN index ELSE pinecone_after_read(index)
        /\ UNCHANGED <<now, ticks, source, registry, disk, apiKey, imported,
                       calls, call, result, probe, lookup, procs, http>>

\* InferenceReader.get_namespace_stats: count is the vector_count returned
get_namespace_stats(ticker0) ==
    LET ticker == Upper(ticker0)
        stats == describe_index_stats(index)
    IN  /\ read.ready
        /\ \E fails \in BOOLEAN :
              /\ read' = Read(TRUE, "get_namespace_stats", ticker0, NoFilter,
                              0, {},
                              IF ~fails /\ ticker \in DOMAIN stats
                              THEN stats[ticker] ELSE 0,
                              FALSE)
              /\ index' = IF fails THEN index ELSE pinecone_after_read(index)
        /\ UNCHANGED <<now, ticks, source, registry, disk, apiKey, imported,
                       calls, call, result, probe, lookup, procs, http>>

----------------------------------------------------------------------------
(* Reconciliation calls taken step by step *)

NoProcs == <<>>

\* the two callers and the entity each reconciles
Procs == {1, 2}

ParTicker(p) == IF p = 1 THEN "AAPL" ELSE "TCS"

\* as Namespace, with one namespace for every entity
Namespace_shared(ticker) == "AAPL"

\* index.upsert(vectors=batch, namespace=ticker)
Namespace(ticker) == ticker

\* a call in progress: its arguments, what it has read and collected so far,
\* and the disk subtree and namespace it found when it started
Proc(pc, t, cl, fr, info, fe, br, chk, todo, bad, upd, errs, out, res, st) ==
    [pc |-> pc, ticker |-> t, checklist |-> cl, force_refresh |-> fr,
     info |-> info, folder_existed |-> fe, branch |-> br, checked |-> chk,
     todo |-> todo, failing |-> bad, updated |-> upd, errors |-> errs,
     outcome |-> out, result |-> res, start |-> st]

IdleProc ==
    Proc("idle", "", DataChecklist(<<>>, FALSE), FALSE, NoInfo, FALSE, "none",
         <<>>, <<>>, {}, <<>>, <<>>, "none", Escaped,
         [ent |-> EmptyEntity, ns |-> {}])

\* as MayEnter, with a lock per entity held from the start of a call to its
\* return
MayEnter_locked(p, t) ==
    \A q \in Procs \ {p} :
        procs[q].ticker = t => procs[q].pc \in {"idle", "done"}

\* what a call waits for before it starts on entity t: ensure_data_ready
\* takes no lock and looks at no other call
MayEnter(p, t) == TRUE

\* ensure_data_ready, lines 107-125 for an entity the registry resolves
Start(p, ticker0) ==
    \E cl \in Checklists, fr \in BOOLEAN :
        LET t == Upper(ticker0)
        IN  /\ procs[p].pc = "idle"
            /\ MayEnter(p, t)
            /\ procs' = [procs EXCEPT ![p] =
                            [IdleProc EXCEPT
                               !.pc = "resolved",
                               !.ticker = t,
                               !.checklist = cl,
                               !.force_refresh = fr,
                               !.info = resolve_company(registry, t, NoId, NoId),
                               !.start = [ent |-> disk[t], ns |-> index[t]]]]
            /\ UNCHANGED <<now, ticks, source, registry, disk, index, apiKey,
                           imported, calls, call, result, probe, lookup, read,
                           http>>

StartCall(p) == Start(p, ParTicker(p))

\* lines 127-150, and the choice of the workers that raise in this call
CheckDisk(p) ==
    LET pr == procs[p]
        all == get_all_components(pr.checklist)
        fe == ticker_folder_exists(disk, pr.ticker)
        branch == Branch(fe, pr.force_refresh)
        freshness == check_all_freshness(disk[pr.ticker], pr.info.jurisdiction,
                                         all, now)
        todo == IF branch = "full" THEN all ELSE NeedsFetch(freshness, all)
    IN  /\ pr.pc = "resolved"
        /\ \E failing \in SUBSET Range(todo) :
              procs' = [procs EXCEPT ![p] =
                          [pr EXCEPT
                             !.pc = "fetching",
                             !.folder_existed = fe,
                             !.branch = branch,
                             !.checked = [c \in Range(all) |->
                                            IF branch = "full" THEN FALSE
                                            ELSE freshness[c].is_fresh],
                             !.todo = todo,
                             !.failing = failing]]
        /\ UNCHANGED <<now, ticks, source, registry, disk, index, apiKey,
                       imported, calls, call, result, probe, lookup, read,
                       http>>

\* one pass of a fetch loop: lines 187-201 and 234-253
FetchNext(p) ==
    LET pr == procs[p]
        c == Head(pr.todo)
        bad == FetchRaises(pr.info, c, pr.failing)
    IN  /\ pr.pc = "fetching"
        /\ pr.todo # <<>>
        /\ disk' = IF bad THEN disk
                   ELSE [disk EXCEPT ![pr.ticker] =
                           FetchOne(@, pr.info, c, now, source)]
        /\ procs' = [procs EXCEPT ![p] =
                        [pr EXCEPT
                           !.todo = Tail(pr.todo),
                           !.updated = IF bad THEN @ ELSE Append(@, c),
                           !.errors = IF bad THEN Append(@, <<"fetching", c>>)
                                      ELSE @]]
        /\ UNCHANGED <<now, ticks, source, registry, index, apiKey, imported,
                       calls, call, result, probe, lookup, read, http>>

ProcResult(pr, indexed, errors) ==
    ControlPlaneResult(pr.ticker, pr.info.jurisdiction, pr.folder_existed,
                       pr.checked, pr.updated, indexed, errors)

\* nothing was fetched: lines 203 and 255 skip the indexer
ReturnUnindexed(p) ==
    LET pr == procs[p]
    IN  /\ pr.pc = "fetching"
        /\ pr.todo = <<>>
        /\ pr.updated = <<>>
        /\ procs' = [procs EXCEPT ![p] =
                        [pr EXCEPT !.pc = "done",
                                   !.result = ProcResult(pr, <<>>, pr.errors)]]
        /\ UNCHANGED <<now, ticks, source, registry, disk, index, apiKey,
                       imported, calls, call, result, probe, lookup, read,
                       http>>

\* _index_all up to the end of index_unstructured
IndexUnstructured(p) ==
    LET pr == procs[p]
        t == pr.ticker
    IN  /\ pr.pc = "fetching"
        /\ pr.todo = <<>>
        /\ pr.updated # <<>>
        /\ \E outcome \in IndexOutcomes(apiKey, imported) :
              /\ imported' = (imported \/ outcome # "exit")
              /\ index' = IF outcome \in {"ok", "raise_mid"}
                          THEN [index EXCEPT ![Namespace(t)] =
                                  index_unstructured(@, t, disk[t])]
                          ELSE index
              /\ procs' = [procs EXCEPT ![p] =
                    [pr EXCEPT
                       !.outcome = outcome,
                       !.pc = IF outcome = "ok" THEN "indexing" ELSE "done",
                       !.result =
                          IF outcome = "exit" THEN Escaped
                          ELSE IF outcome = "ok" THEN pr.result
                          ELSE ProcResult(pr, <<>>,
                                          Append(pr.errors, <<"indexing">>))]]
        /\ UNCHANGED <<now, ticks, source, registry, disk, apiKey, calls,
                       call, result, probe, lookup, read, http>>

\* index_narrated_financials and the return of the call
IndexNarrated(p) ==
    LET pr == procs[p]
        t == pr.ticker
    IN  /\ pr.pc = "indexing"
        /\ index' = [index EXCEPT ![Namespace(t)] =
                        index_narrated_financials(@, t, disk[t])]
        /\ procs' = [procs EXCEPT ![p] =
                        [pr EXCEPT !.pc = "done",
                                   !.result = ProcResult(pr, pr.updated,
                                                         pr.errors)]]
        /\ UNCHANGED <<now, ticks, source, registry, disk, apiKey, imported,
                       calls, call, result, probe, lookup, read, http>>

\* ensure_data_ready run without interruption on the subtree ent and the
\* namespace ns, with the given failing workers and indexer outcome
reconcile_alone(ticker, checklist, fr, failing, outcome, ent, ns, clock, src) ==
    LET info == resolve_company(registry, ticker, NoId, NoId)
        folder_existed == ent.folder
        branch == Branch(folder_existed, fr)
        all == get_all_components(checklist)
        freshness == check_all_freshness(ent, info.jurisdiction, all, clock)
        fetched == IF branch = "full"
                   THEN _full_onboarding(ent, info, checklist, failing, clock,
                                         src)
                   ELSE _incremental_update(ent, info, checklist, freshness,
                                            failing, clock, src)
        done == IndexStep(fetched, outcome)
        checked == [c \in Range(all) |->
                      IF branch = "full" THEN FALSE
                      ELSE freshness[c].is_fresh]
    IN  [disk |-> DiskAfter(ent, fetched, outcome),
         index |-> IndexAfter(ns, ticker, fetched.ent, outcome),
         result |-> IF outcome = "exit" THEN Escaped
                    ELSE ControlPlaneResult(ticker, info.jurisdiction,
                                            folder_existed, checked,
                                            fetched.updated, done.indexed,
                                            done.errors)]

----------------------------------------------------------------------------
(* The environment *)

\* time passes
Tick ==
    /\ ticks < MaxTicks
    /\ \E d \in TickSteps : now' = now + d
    /\ ticks' = ticks + 1
    /\ UNCHANGED <<source, registry, disk, index, apiKey, imported, calls,
                   call, result, probe, lookup, read, procs, http>>

\* the sources publish a new revision of the filings and statements
Publish ==
    /\ source.ver < MaxVersion
    /\ source' = [ver |-> source.ver + 1, at |-> now]
    /\ UNCHANGED <<now, ticks, registry, disk, index, apiKey, imported, calls,
                   call, result, probe, lookup, read, procs, http>>

Reconcile ==
    \E rq \in Requests, cl \in Checklists, fr \in BOOLEAN :
        ensure_data_ready(rq.ticker, cl, rq.cik, rq.scrip_code, fr)

\* python -m src.indexing.upsert_pinecone <TICKER>: the indexer run on its
\* own, in a process of its own
RunIndexer ==
    \E t \in Tickers :
      \E outcome \in IndexOutcomes(apiKey, FALSE) :
        /\ calls < MaxCalls
        /\ calls' = calls + 1
        /\ index' = [index EXCEPT ![t] = IndexAfter(@, t, disk[t], outcome)]
        /\ result' = Escaped
        /\ call' = Call(t, DataChecklist(<<>>, FALSE), NoId, NoId, FALSE,
                        "indexer", now, outcome,
                        <<Step("index", "", outcome = "ok")>>, disk[t])
        /\ UNCHANGED <<now, ticks, source, registry, disk, apiKey, imported,
                       probe, lookup, read, procs, http>>

NoCall ==
    [ticker |-> "", checklist |-> DataChecklist(<<>>, FALSE), cik |-> NoId,
     scrip_code |-> NoId, force_refresh |-> FALSE, branch |-> "none",
     at |-> 0, indexer |-> "none", trace |-> <<>>, before |-> EmptyEntity,
     prev |-> [ticker |-> "", checklist |-> DataChecklist(<<>>, FALSE),
               cik |-> NoId, scrip_code |-> NoId, branch |-> "none",
               indexer |-> "none"]]

\* what a probe keeps of the evaluation before it
Evaluation(p) ==
    [made |-> p.made, component |-> p.component,
     jurisdiction |-> p.jurisdiction, at |-> p.at, res |-> p.res]

Probe(c, j, at, res) ==
    [made |-> TRUE, component |-> c, jurisdiction |-> j, at |-> at, res |-> res,
     prev |-> Evaluation(probe)]

NoEvaluation ==
    [made |-> FALSE, component |-> "", jurisdiction |-> "None", at |-> 0,
     res |-> FreshnessResult("", FALSE, FALSE, FALSE, 0, 0, 0, FALSE)]

NoProbe ==
    [made |-> FALSE, component |-> "", jurisdiction |-> "None", at |-> 0,
     res |-> FreshnessResult("", FALSE, FALSE, FALSE, 0, 0, 0, FALSE),
     prev |-> NoEvaluation]

Init ==
    /\ now = 0
    /\ ticks = 0
    /\ source = [ver |-> 1, at |-> 0]
    /\ registry = InitialRegistry
    /\ disk = [t \in Tickers |-> EmptyEntity]
    /\ index = [t \in Tickers |-> {}]
    /\ apiKey \in BOOLEAN
    /\ imported = FALSE
    /\ calls = 0
    /\ call = NoCall
    /\ result = Escaped
    /\ probe = NoProbe
    /\ lookup = NoLookup
    /\ read = NoRead
    /\ procs = NoProcs
    /\ http = NoHttp

\* the environment moves between the calls of a behaviour: before the
\* first call the disk holds nothing that has an age or a revision, and
\* after the last no operation observes the clock or the sources
BetweenCalls == 0 < calls /\ calls < MaxCalls

TickBetween == BetweenCalls /\ Tick

PublishBetween == BetweenCalls /\ Publish

Next == Reconcile \/ RunIndexer \/ TickBetween \/ PublishBetween

Spec == Init /\ [][Next]_vars

----------------------------------------------------------------------------
(* The freshness evaluator on its own: any artifact a disk can hold,        *)
(* evaluated at any time                                                    *)

\* the instants artifacts of FreshSpec carry
ProbeTimes == {0} \cup TickSteps

FileStates ==
    {NoFile}
    \cup {File(Meta(k, 0), 1) : k \in MetaKinds \ {"aware", "naive"}}
    \cup {File(Meta(k, t), 1) : k \in {"aware", "naive"}, t \in ProbeTimes}

PdfStates ==
    {Pdf(k, d, m) : k \in {"dash", "compact", "bad"}, d \in {0, 24},
                    m \in {0, 24}}

DirStates ==
    {NoDir}
    \cup {[exists |-> TRUE, pdfs |-> S] :
            S \in {X \in SUBSET PdfStates : Cardinality(X) <= 2}}

\* the entity whose artifacts FreshSpec evaluates
ProbeTicker == "AAPL"

FreshInit ==
    /\ now = 0
    /\ ticks = 0
    /\ source = [ver |-> 1, at |-> 0]
    /\ registry = InitialRegistry
    /\ \E f \in FileStates, d \in DirStates, c \in Range(ModelStructured) :
         disk = [t \in Tickers |->
                   IF t = ProbeTicker
                   THEN [folder |-> TRUE,
                         structured |-> [x \in Range(ModelStructured) |->
                                           IF x = c THEN f ELSE NoFile],
                         json |-> f,
                         raw |-> d]
                   ELSE EmptyEntity]
    /\ index = [t \in Tickers |-> {}]
    /\ apiKey = TRUE
    /\ imported = FALSE
    /\ calls = 0
    /\ call = NoCall
    /\ result = Escaped
    /\ probe = NoProbe
    /\ lookup = NoLookup
    /\ read = NoRead
    /\ procs = NoProcs
    /\ http = NoHttp

\* check_component_freshness(ticker, component, jurisdiction, base_dir)
CheckFreshness ==
    \E c \in Range(ModelStructured) \cup {"unstructured"},
       j \in {"US", "INDIA"} :
        /\ probe' = Probe(c, j, now,
                          check_component_freshness(disk[ProbeTicker], c, j,
                                                    now))
        /\ disk' = disk_after_freshness(disk, ProbeTicker)
        /\ UNCHANGED <<now, ticks, source, registry, index, apiKey, imported,
                       calls, call, result, lookup, read, procs, http>>

FreshNext == CheckFreshness \/ Tick

FreshSpec == FreshInit /\ [][FreshNext]_vars

----------------------------------------------------------------------------
(* The filings of one US entity, fetched and indexed again and again, by the *)
(* manager and by the indexer run on its own                                 *)

ReconcileFilings ==
    \E fr \in BOOLEAN :
        ensure_data_ready("AAPL", DataChecklist(<<>>, TRUE), NoId, NoId, fr)

FilingsNext == ReconcileFilings \/ RunIndexer \/ Tick \/ Publish

FilingsSpec == Init /\ [][FilingsNext]_vars

----------------------------------------------------------------------------
(* One artifact, written once, evaluated again and again as time passes: the *)
(* first evaluation is made at any of the instants of ProbeTimes             *)

AgedDirs ==
    {NoDir} \cup {[exists |-> TRUE, pdfs |-> {p}] : p \in PdfStates}

AgeInit ==
    /\ now \in ProbeTimes
    /\ ticks = 0
    /\ source = [ver |-> 1, at |-> 0]
    /\ registry = InitialRegistry
    /\ \E f \in FileStates, d \in AgedDirs :
         disk = [t \in Tickers |->
                   IF t = ProbeTicker
                   THEN [folder |-> TRUE,
                         structured |-> [x \in Range(ModelStructured) |-> f],
                         json |-> f,
                         raw |-> d]
                   ELSE EmptyEntity]
    /\ index = [t \in Tickers |-> {}]
    /\ apiKey = TRUE
    /\ imported = FALSE
    /\ calls = 0
    /\ call = NoCall
    /\ result = Escaped
    /\ probe = NoProbe
    /\ lookup = NoLookup
    /\ read = NoRead
    /\ procs = NoProcs
    /\ http = NoHttp

AgeNext == CheckFreshness \/ Tick

AgeSpec == AgeInit /\ [][AgeNext]_vars

----------------------------------------------------------------------------
(* Evaluations of one component and of a whole list of components *)

ProbeLists == {get_all_components(cl) : cl \in Checklists}

\* check_all_freshness(ticker, jurisdiction, base_dir, components): the
\* probe keeps the dict it returns
CheckAllFreshness ==
    \E cs \in ProbeLists, j \in {"US", "INDIA"} :
        /\ probe' = Probe("all", j, now,
                          check_all_freshness(disk[ProbeTicker], j, cs, now))
        /\ disk' = disk_after_freshness(disk, ProbeTicker)
        /\ UNCHANGED <<now, ticks, source, registry, index, apiKey, imported,
                       calls, call, result, lookup, read, procs, http>>

PureFiles ==
    {NoFile, File(Meta("aware", 0), 1), File(Meta("naive", 24), 1),
     File(Meta("unparseable", 0), 1)}

PureDirs ==
    {NoDir, [exists |-> TRUE, pdfs |-> {}],
     [exists |-> TRUE, pdfs |-> {Pdf("dash", 0, 24)}],
     [exists |-> TRUE, pdfs |-> {Pdf("bad", 0, 24), Pdf("compact", 24, 0)}]}

PureInit ==
    /\ now = 0
    /\ ticks = 0
    /\ source = [ver |-> 1, at |-> 0]
    /\ registry = InitialRegistry
    /\ \E f \in PureFiles, g \in PureFiles, d \in PureDirs :
         disk = [t \in Tickers |->
                   IF t = ProbeTicker
                   THEN [folder |-> TRUE,
                         structured |-> [x \in Range(ModelStructured) |-> f],
                         json |-> g,
                         raw |-> d]
                   ELSE EmptyEntity]
    /\ index = [t \in Tickers |-> {}]
    /\ apiKey = TRUE
    /\ imported = FALSE
    /\ calls = 0
    /\ call = NoCall
    /\ result = Escaped
    /\ probe = NoProbe
    /\ lookup = NoLookup
    /\ read = NoRead
    /\ procs = NoProcs
    /\ http = NoHttp

PureNext == CheckFreshness \/ CheckAllFreshness \/ Tick

PureSpec == PureInit /\ [][PureNext]_vars

----------------------------------------------------------------------------
(* Evaluations of the component names a caller can put in a checklist *)

\* DataChecklist.structured is a list[str]: the names of config.py and a
\* name that config.py does not know
ComponentNames == Range(STRUCTURED_COMPONENTS) \cup {"unstructured", "dividends"}

PolicyChecklists ==
    {DataChecklist(STRUCTURED_COMPONENTS, TRUE),
     DataChecklist(<<"info", "cash_flow">>, FALSE),
     DataChecklist(<<"price", "dividends">>, TRUE)}

PolicyInit ==
    /\ now = 0
    /\ ticks = 0
    /\ source = [ver |-> 1, at |-> 0]
    /\ registry = InitialRegistry
    /\ \E f \in PureFiles, d \in PureDirs :
         disk = [t \in Tickers |->
                   IF t = ProbeTicker
                   THEN [folder |-> TRUE,
                         structured |->
                           [x \in Range(STRUCTURED_COMPONENTS) |-> f],
                         json |-> f,
                         raw |-> d]
                   ELSE EmptyEntity]
    /\ index = [t \in Tickers |-> {}]
    /\ apiKey = TRUE
    /\ imported = FALSE
    /\ calls = 0
    /\ call = NoCall
    /\ result = Escaped
    /\ probe = NoProbe
    /\ lookup = NoLookup
    /\ read = NoRead
    /\ procs = NoProcs
    /\ http = NoHttp

\* check_component_freshness for a name of the caller's choice
CheckNamed ==
    \E c \in ComponentNames, j \in {"US", "INDIA"} :
        /\ probe' = Probe(c, j, now,
                          check_component_freshness(disk[ProbeTicker], c, j,
                                                    now))
        /\ disk' = disk_after_freshness(disk, ProbeTicker)
        /\ UNCHANGED <<now, ticks, source, registry, index, apiKey, imported,
                       calls, call, result, lookup, read, procs, http>>

\* check_all_freshness over checklist.get_all_components(), as
\* ensure_data_ready calls it
CheckChecklist ==
    \E cl \in PolicyChecklists, j \in {"US", "INDIA"} :
        /\ probe' = Probe("all", j, now,
                          check_all_freshness(disk[ProbeTicker], j,
                                              get_all_components(cl), now))
        /\ disk' = disk_after_freshness(disk, ProbeTicker)
        /\ UNCHANGED <<now, ticks, source, registry, index, apiKey, imported,
                       calls, call, result, lookup, read, procs, http>>

PolicyNext == CheckNamed \/ CheckChecklist \/ Tick

PolicySpec == PolicyInit /\ [][PolicyNext]_vars

----------------------------------------------------------------------------
(* The indexer on files with short, empty and null texts *)

SkipTicker == "AAPL"

SkipJsons == {NoFile} \cup {File(Meta("aware", 0), x) : x \in {1, 2}}

SkipInit ==
    /\ now = 0
    /\ ticks = 0
    /\ source = [ver |-> 1, at |-> 0]
    /\ registry = InitialRegistry
    /\ \E v \in OddRevs \cup {1}, w \in {1, 2}, j \in SkipJsons :
         disk = [t \in Tickers |->
                   IF t = SkipTicker
                   THEN [folder |-> TRUE,
                         structured |->
                           [x \in Range(ModelStructured) |->
                              IF x = "price" THEN File(Meta("aware", 0), v)
                              ELSE File(Meta("aware", 0), w)],
                         json |-> j,
                         raw |-> NoDir]
                   ELSE EmptyEntity]
    /\ index = [t \in Tickers |-> {}]
    /\ apiKey = TRUE
    /\ imported = FALSE
    /\ calls = 0
    /\ call = NoCall
    /\ result = Escaped
    /\ probe = NoProbe
    /\ lookup = NoLookup
    /\ read = NoRead
    /\ procs = NoProcs
    /\ http = NoHttp

\* index_all_data(ticker) with the index service answering: what it does is
\* decided by the files alone
IndexEntity ==
    LET ent == disk[SkipTicker]
        outcome == IF join_raises(ent) THEN "raise_mid" ELSE "ok"
    IN  /\ calls < MaxCalls
        /\ calls' = calls + 1
        /\ index' = [index EXCEPT ![SkipTicker] =
                       index_all_data(@, SkipTicker, ent)]
        /\ result' = Escaped
        /\ call' = Call(SkipTicker, DataChecklist(<<>>, FALSE), NoId, NoId,
                        FALSE, "indexer", now, outcome,
                        <<Step("index", "", outcome = "ok")>>, ent)
        /\ UNCHANGED <<now, ticks, source, registry, disk, apiKey, imported,
                       probe, lookup, read, procs, http>>

SkipNext == IndexEntity \/ Tick \/ Publish

SkipSpec == SkipInit /\ [][SkipNext]_vars

----------------------------------------------------------------------------
(* The company registry on its own: lookups, resolutions and registrations  *)

MaxRegistrations == 2

\* the keys the callers pass; "zzz" is the unknown key in lower case
LookupTickers == {"AAPL", "TCS", "ZZZ", "zzz"}

Ciks == {NoId, "0000999999"}

Scrips == {NoId, "500999"}

GetCompanyInfo ==
    \E t \in LookupTickers :
        /\ lookup' = Lookup("get", t, "None", NoId, NoId,
                            get_company_info(registry, t), FALSE, registry,
                            lookup.last, lookup.registered)
        /\ UNCHANGED <<now, ticks, source, registry, disk, index, apiKey,
                       imported, calls, call, result, probe, read, procs,
                       http>>

ResolvedBefore(t, c, s) ==
    /\ c = NoId
    /\ s = NoId
    /\ lookup.op = "resolve"
    /\ Upper(lookup.ticker) = Upper(t)

ResolveCompany ==
    \E t \in LookupTickers, c \in Ciks, s \in Scrips :
        /\ lookup' = [Lookup("resolve", t, "None", c, s,
                             resolve_company(registry, t, c, s), FALSE,
                             registry, lookup.last, lookup.registered)
                          EXCEPT !.prev = IF ResolvedBefore(t, c, s)
                                          THEN Asked(lookup)
                                          ELSE NothingAsked]
        /\ registry' = registry_after_resolve(registry, t, c, s)
        /\ UNCHANGED <<now, ticks, source, disk, index, apiKey, imported,
                       calls, call, result, probe, read, procs, http>>

RegisterCompany ==
    \E t \in LookupTickers, j \in {"US", "INDIA"}, c \in Ciks, s \in Scrips :
        LET r == register_company(registry, t, j, c, s)
        IN  /\ lookup.registered < MaxRegistrations
            /\ registry' = r.registry
            /\ lookup' = Lookup("register", t, j, c, s, r.info, r.raised,
                                registry,
                                IF r.raised THEN lookup.last
                                ELSE [made |-> TRUE, info |-> r.info],
                                lookup.registered + 1)
            /\ UNCHANGED <<now, ticks, source, disk, index, apiKey, imported,
                           calls, call, result, probe, read, procs, http>>

RegistryNext == GetCompanyInfo \/ ResolveCompany \/ RegisterCompany

RegistrySpec == Init /\ [][RegistryNext]_vars

----------------------------------------------------------------------------
(* Entity keys in either letter case *)

CaseTickers == {"ZZZ", "zzz"}

CaseChecklists == {DataChecklist(<<>>, TRUE), DataChecklist(<<"price">>, FALSE)}

ReconcileCased ==
    \E t \in CaseTickers, cl \in CaseChecklists, fr \in BOOLEAN :
        ensure_data_ready(t, cl, NoId, NoId, fr)

RegisterCased ==
    \E t \in CaseTickers :
        LET r == register_company(registry, t, "US", "0000999999", NoId)
        IN  /\ lookup.registered < MaxRegistrations
            /\ registry' = r.registry
            /\ lookup' = Lookup("register", t, "US", "0000999999", NoId,
                                r.info, r.raised, registry,
                                [made |-> TRUE, info |-> r.info],
                                lookup.registered + 1)
            /\ UNCHANGED <<now, ticks, source, disk, index, apiKey, imported,
                           calls, call, result, probe, read, procs, http>>

GetCased ==
    \E t \in CaseTickers \cup {"aapl"} :
        /\ lookup' = Lookup("get", t, "None", NoId, NoId,
                            get_company_info(registry, t), FALSE, registry,
                            lookup.last, lookup.registered)
        /\ UNCHANGED <<now, ticks, source, registry, disk, index, apiKey,
                       imported, calls, call, result, probe, read, procs,
                       http>>

CaseNext == ReconcileCased \/ RegisterCased \/ GetCased \/ Publish

CaseSpec == Init /\ [][CaseNext]_vars

----------------------------------------------------------------------------
(* Two callers, each reconciling an entity of its own, their steps           *)
(* interleaved in any order                                                  *)

\* the subtree a full onboarding of every component at time 0 leaves
Onboarded(t) ==
    _full_onboarding(EmptyEntity, InitialRegistry[t],
                     DataChecklist(ModelStructured, TRUE), {}, 0,
                     [ver |-> 1, at |-> 0]).ent

\* the time at which the two calls are made
ParTime == 24

ParInit ==
    /\ now = ParTime
    /\ ticks = 0
    /\ source \in {[ver |-> 1, at |-> 0], [ver |-> 2, at |-> ParTime]}
    /\ registry = InitialRegistry
    /\ \E known \in SUBSET {ParTicker(p) : p \in Procs} :
         /\ disk = [t \in Tickers |->
                      IF t \in known THEN Onboarded(t) ELSE EmptyEntity]
         /\ index = [t \in Tickers |->
                       IF t \in known THEN Derivable(t, Onboarded(t)) ELSE {}]
    /\ apiKey \in BOOLEAN
    /\ imported = FALSE
    /\ calls = 0
    /\ call = NoCall
    /\ result = Escaped
    /\ probe = NoProbe
    /\ lookup = NoLookup
    /\ read = NoRead
    /\ procs = [p \in Procs |-> IdleProc]
    /\ http = NoHttp

ParNext ==
    \E p \in Procs :
        \/ StartCall(p)
        \/ CheckDisk(p)
        \/ FetchNext(p)
        \/ ReturnUnindexed(p)
        \/ IndexUnstructured(p)
        \/ IndexNarrated(p)

ParSpec == ParInit /\ [][ParNext]_vars

----------------------------------------------------------------------------
(* Two callers reconciling the same entity *)

SameTicker == "AAPL"

StartSame(p) == Start(p, SameTicker)

\* the entity is new or was onboarded before
SameInit ==
    /\ now = ParTime
    /\ ticks = 0
    /\ source = [ver |-> 1, at |-> 0]
    /\ registry = InitialRegistry
    /\ \E known \in BOOLEAN :
         /\ disk = [t \in Tickers |->
                      IF known /\ t = SameTicker THEN Onboarded(t)
                      ELSE EmptyEntity]
         /\ index = [t \in Tickers |->
                       IF known /\ t = SameTicker
                       THEN Derivable(t, Onboarded(t)) ELSE {}]
    /\ apiKey = TRUE
    /\ imported = FALSE
    /\ calls = 0
    /\ call = NoCall
    /\ result = Escaped
    /\ probe = NoProbe
    /\ lookup = NoLookup
    /\ read = NoRead
    /\ procs = [p \in Procs |-> IdleProc]
    /\ http = NoHttp

SameNext ==
    \E p \in Procs :
        \/ StartSame(p)
        \/ CheckDisk(p)
        \/ FetchNext(p)
        \/ ReturnUnindexed(p)
        \/ IndexUnstructured(p)
        \/ IndexNarrated(p)

SameSpec == SameInit /\ [][SameNext]_vars

----------------------------------------------------------------------------
(* The inference reader on an index and a disk the control plane has filled *)

ReadTickers == {"AAPL", "tcs", "ZZZ"}

TopKs == {1, 2}

Categories == {"narrative", "narrated_numeric"}

ReaderInit ==
    /\ now = 0
    /\ ticks = 0
    /\ source = [ver |-> 1, at |-> 0]
    /\ registry = InitialRegistry
    /\ \E known \in SUBSET {"AAPL", "TCS"} :
         /\ disk = [t \in Tickers |->
                      IF t \in known THEN Onboarded(t) ELSE EmptyEntity]
         /\ index = [t \in Tickers |->
                       IF t \in known THEN Derivable(t, Onboarded(t)) ELSE {}]
    /\ apiKey \in BOOLEAN
    /\ imported = FALSE
    /\ calls = 0
    /\ call = NoCall
    /\ result = Escaped
    /\ probe = NoProbe
    /\ lookup = NoLookup
    /\ read = NoRead
    /\ procs = NoProcs
    /\ http = NoHttp

Retrieve ==
    \E t \in ReadTickers, k \in TopKs : retrieve("retrieve", t, k, NoFilter)

RetrieveByCategory ==
    \E t \in ReadTickers, c \in Categories, k \in TopKs :
        retrieve_by_category(t, c, k)

CheckNamespaceExists == \E t \in ReadTickers : check_namespace_exists(t)

GetNamespaceStats == \E t \in ReadTickers : get_namespace_stats(t)

ReaderNext ==
    \/ NewReader
    \/ Retrieve
    \/ RetrieveByCategory
    \/ CheckNamespaceExists
    \/ GetNamespaceStats

ReaderSpec == ReaderInit /\ [][ReaderNext]_vars

----------------------------------------------------------------------------
(* RetrievalResult.get_context on any list of matches                       *)

\* a text of n characters, all ch
TextOf(n, ch) == [i \in 1..n |-> ch]

\* "\n\n---\n\n"
ContextSeparator == <<"\n", "\n", "-", "-", "-", "\n", "\n">>

Ellipsis == <<".", ".", ".">>

\* sep.join(texts)
RECURSIVE Join(_, _)
Join(sep, texts) ==
    IF texts = <<>> THEN <<>>
    ELSE IF Len(texts) = 1 THEN texts[1]
    ELSE texts[1] \o sep \o Join(sep, Tail(texts))

\* the loop of get_context over the matches left, lines 73-80
RECURSIVE ContextLoop(_, _, _, _)
ContextLoop(todo, texts, char_count, max_chars) ==
    IF todo = <<>> THEN texts
    ELSE LET text == Head(todo)
             remaining == max_chars - char_count
         IN  IF char_count + Len(text) > max_chars
             THEN IF remaining > 100
                  THEN Append(texts, SubSeq(text, 1, remaining) \o Ellipsis)
                  ELSE texts
             ELSE ContextLoop(Tail(todo), Append(texts, text),
                              char_count + Len(text), max_chars)

context_texts(matches, max_chars) == ContextLoop(matches, <<>>, 0, max_chars)

get_context(matches, max_chars) ==
    Join(ContextSeparator, context_texts(matches, max_chars))

\* the lengths of the texts of the matches, the characters that tell the
\* matches apart, and the limits asked for
TextLengths == {0, 40, 120, 300}

MatchMarks == <<"a", "b", "c">>

MaxCharsAsked == {0, 50, 80, 100, 200, 1000}

MatchLists ==
    UNION {[1..n -> TextLengths] : n \in 0..Len(MatchMarks)}

\* a Retrieval Result holding the matches ms, before and after get_context
Retrieved(ms) ==
    [ready |-> TRUE, op |-> "retrieved", matches |-> ms, max_chars |-> 0,
     texts |-> <<>>, context |-> <<>>]

ContextInit ==
    /\ now = 0
    /\ ticks = 0
    /\ source = [ver |-> 1, at |-> 0]
    /\ registry = InitialRegistry
    /\ disk = [t \in Tickers |-> EmptyEntity]
    /\ index = [t \in Tickers |-> {}]
    /\ apiKey = TRUE
    /\ imported = FALSE
    /\ calls = 0
    /\ call = NoCall
    /\ result = Escaped
    /\ probe = NoProbe
    /\ lookup = NoLookup
    /\ \E ls \in MatchLists :
         read = Retrieved([i \in 1..Len(ls) |-> TextOf(ls[i], MatchMarks[i])])
    /\ procs = NoProcs
    /\ http = NoHttp

GetContext ==
    \E m \in MaxCharsAsked :
        /\ read' = [read EXCEPT !.op = "get_context",
                                !.max_chars = m,
                                !.texts = context_texts(read.matches, m),
                                !.context = get_context(read.matches, m)]
        /\ UNCHANGED <<now, ticks, source, registry, disk, index, apiKey,
                       imported, calls, call, result, probe, lookup, procs,
                       http>>

ContextNext == GetContext

ContextSpec == ContextInit /\ [][ContextNext]_vars

----------------------------------------------------------------------------
(* The request loops of the SEC fetcher, one attempt at a time              *)

RetriesAsked == 0..MaxRetries

\* the companies whose filings are asked for: two of the registry
CiksAsked == {"0000320193", "0000789019"}

RetryInit ==
    /\ now = 0
    /\ ticks = 0
    /\ source = [ver |-> 1, at |-> 0]
    /\ registry = InitialRegistry
    /\ disk = [t \in Tickers |-> EmptyEntity]
    /\ index = [t \in Tickers |-> {}]
    /\ apiKey = TRUE
    /\ imported = FALSE
    /\ calls = 0
    /\ call = NoCall
    /\ result = Escaped
    /\ probe = NoProbe
    /\ lookup = NoLookup
    /\ read = NoRead
    /\ procs = NoProcs
    /\ http = NoHttp

AllButHttp ==
    <<now, ticks, source, registry, disk, index, apiKey, imported, calls,
      call, result, probe, lookup, read, procs>>

GetLatest10kMetadata ==
    \E c \in CiksAsked, r \in RetriesAsked :
        /\ http.pc # "loop"
        /\ http' = Begin("get_latest_10k_metadata", c, r)
        /\ UNCHANGED AllButHttp

FindReal10kHtml ==
    \E c \in CiksAsked, r \in RetriesAsked :
        /\ http.pc # "loop"
        /\ http' = Begin("find_real_10k_html", c, r)
        /\ UNCHANGED AllButHttp

RequestMetadata ==
    \E resp \in MetadataResponses :
        /\ http.pc = "loop"
        /\ http.fn = "get_latest_10k_metadata"
        /\ MoreAttempts(http)
        /\ http' = request_attempt(http, resp)
        /\ UNCHANGED AllButHttp

RequestIndex ==
    \E resp \in IndexResponses :
        /\ http.pc = "loop"
        /\ http.fn = "find_real_10k_html"
        /\ MoreAttempts(http)
        /\ http' = request_attempt(http, resp)
        /\ UNCHANGED AllButHttp

LoopEnds ==
    /\ http.pc = "loop"
    /\ ~MoreAttempts(http)
    /\ http' = after_loop(http)
    /\ UNCHANGED AllButHttp

\* the steps of a function that was called: it runs until it returns or
\* raises, every request ending within its timeout
RetryStep == RequestMetadata \/ RequestIndex \/ LoopEnds

RetryNext ==
    \/ GetLatest10kMetadata
    \/ FindReal10kHtml
    \/ RequestMetadata
    \/ RequestIndex
    \/ LoopEnds

RetrySpec == RetryInit /\ [][RetryNext]_vars /\ WF_vars(RetryStep)

----------------------------------------------------------------------------
(* Reading the last call *)

\* the last operation was an ensure_data_ready call
Reconciled == call.branch \in {"unknown", "full", "incremental"}

\* the entity key of the last call
Key == Upper(call.ticker)

\* the components of the last call's checklist, structured first
Checklisted ==
    call.checklist.structured
    \o (IF call.checklist.unstructured THEN <<"unstructured">> ELSE <<>>)

\* the fetch attempts of the last call, in order, and their components
Fetches == SelectSeq(call.trace, LAMBDA s : s.op = "fetch")

Attempted == [i \in 1..Len(Fetches) |-> Fetches[i].component]

FetchedOk ==
    LET ok == SelectSeq(Fetches, LAMBDA s : s.ok)
    IN  [i \in 1..Len(ok) |-> ok[i].component]

FetchFailed == {s.component : s \in {x \in Range(Fetches) : ~x.ok}}

Ids(ns) == {e.id : e \in ns}

\* the last call's checklist and identifiers are those of the call before it
SameRequestAsBefore ==
    /\ call.prev.branch \in {"unknown", "full", "incremental"}
    /\ Upper(call.prev.ticker) = Key
    /\ call.prev.checklist = call.checklist
    /\ call.prev.cik = call.cik
    /\ call.prev.scrip_code = call.scrip_code

\* the components the last call had to fetch: all of the checklist on a full
\* onboarding, the ones reported not fresh otherwise
NeedFetching ==
    IF call.branch = "full" THEN Checklisted
    ELSE SelectSeqBy(Checklisted,
                     {c \in Range(Checklisted) : ~result.components_checked[c]})

ErrorsAbout(c) ==
    Len(SelectSeq(result.errors, LAMBDA e : e = <<"fetching", c>>))

\* the artifact of component c is the one a fetch made at time t wrote
WrittenAt(ent, c, jurisdiction, t) ==
    IF c # "unstructured"
    THEN ent.structured[c].exists /\ ent.structured[c].meta = Meta("aware", t)
    ELSE IF jurisdiction = "US"
    THEN ent.json.exists /\ ent.json.meta = Meta("aware", t)
    ELSE ent.raw.exists /\ call.before.raw.pdfs \subseteq ent.raw.pdfs

----------------------------------------------------------------------------
(* Claims *)

\* C1: after a reconciliation call that returns with success, the entries of
\* the entity's namespace are exactly the entries derivable from the
\* entity's artifacts on disk; no entry of a replaced text remains.
C1_ExactMirror ==
    (Reconciled /\ result.returned /\ success(result))
        => index[Key] = Derivable(Key, disk[Key])

\* The second half of C1 on its own: after a call whose indexing succeeded,
\* the namespace holds no entry that the disk does not give.
NoStaleEntry ==
    (Reconciled /\ result.returned /\ call.indexer = "ok")
        => index[Key] \subseteq Derivable(Key, disk[Key])

\* C2: a run of the Mirror Indexer that follows a completed run for the same
\* entity, with no change of the disk in between, leaves the identifiers and
\* the number of entries of the namespace as the first run left them.
C2_IdempotentReindex ==
    [][(/\ call.indexer = "ok"
        /\ calls' = calls + 1
        /\ call'.branch = "indexer"
        /\ call'.indexer = "ok"
        /\ call'.ticker = Key)
       => /\ Ids(index'[Key]) = Ids(index[Key])
          /\ Cardinality(index'[Key]) = Cardinality(index[Key])]_vars

C2_Witness ==
    /\ call.branch = "indexer"
    /\ call.indexer = "ok"
    /\ call.prev.branch = "full"
    /\ call.prev.indexer = "ok"
    /\ Upper(call.prev.ticker) = Key
    /\ Cardinality(index[Key]) >= 3

\* C3: when a call fetched a component and its indexing failed, the next
\* call for the same entity and checklist, without force-refresh and with the
\* indexer working, invokes the indexer and leaves the index consistent with
\* the disk.
C3_GapClosing ==
    (/\ Reconciled
     /\ SameRequestAsBefore
     /\ call.prev.indexer \in {"raise", "raise_mid"}
     /\ ~call.force_refresh
     /\ call.indexer \in {"ok", "none"})
        => /\ call.indexer = "ok"
           /\ index[Key] = Derivable(Key, disk[Key])

\* C4: a fetch that raises stops no other fetch: every component that needs
\* fetching is attempted, and when the indexer then succeeds the fetched
\* components are the updated and the indexed ones, each failed component
\* is in neither and has exactly one error, and success is true.
C4_PartialFailureIsolation ==
    (Reconciled /\ result.returned /\ FetchFailed # {})
        => /\ Attempted = NeedFetching
           /\ call.indexer = "ok"
                => /\ result.components_updated = FetchedOk
                   /\ result.components_indexed = FetchedOk
                   /\ \A c \in FetchFailed :
                        /\ c \notin Range(result.components_updated)
                        /\ c \notin Range(result.components_indexed)
                        /\ ErrorsAbout(c) = 1
                   /\ Len(result.errors) = Cardinality(FetchFailed)
                   /\ success(result)

C4_Witness ==
    /\ Reconciled
    /\ call.branch = "incremental"
    /\ Len(Fetches) >= 2
    /\ ~Fetches[1].ok
    /\ Fetches[Len(Fetches)].ok
    /\ call.indexer = "ok"
    /\ success(result)

\* C5: the first reconciliation of a resolvable entity with no folder on
\* disk attempts one fetch per component of the checklist; when every fetch
\* and the indexing succeed, all of them are updated and indexed and there
\* is no error.
C5_FullOnboardingComplete ==
    (Reconciled /\ call.branch = "full" /\ ~call.before.folder)
        => /\ Attempted = Checklisted
           /\ (result.returned /\ FetchFailed = {}
               /\ call.indexer \in {"ok", "none"})
                => /\ result.components_updated = Checklisted
                   /\ result.components_indexed = Checklisted
                   /\ result.errors = <<>>

C5_Witness ==
    /\ Reconciled
    /\ call.branch = "full"
    /\ ~call.before.folder
    /\ Len(Checklisted) = MaxStructured + 1
    /\ result.components_indexed = Checklisted

\* C6: a key that is not in the registry, reconciled without cik and
\* scrip_code, gives a result with nothing checked, updated or indexed, no
\* jurisdiction and one error, and no freshness check, fetch or indexer call.
C6_UnknownEntity ==
    (/\ Reconciled
     /\ Key \notin DOMAIN registry
     /\ call.cik = NoId
     /\ call.scrip_code = NoId)
        => /\ result.returned
           /\ result.components_checked = <<>>
           /\ result.components_updated = <<>>
           /\ result.components_indexed = <<>>
           /\ result.jurisdiction = "None"
           /\ Len(result.errors) = 1
           /\ \A i \in 1..Len(call.trace) :
                call.trace[i].op \notin {"freshness", "fetch", "index"}
           /\ disk[Key] = call.before

C6_Witness ==
    /\ Reconciled
    /\ call.ticker = "ZZZ"
    /\ call.cik = NoId
    /\ call.checklist.unstructured
    /\ Len(result.errors) = 1

\* C7: success is true exactly when there is no error or some component was
\* indexed; so it is false when the indexer failed, when every fetch failed
\* and when the entity was not resolvable.
C7_PermissiveSuccess ==
    (Reconciled /\ result.returned)
        => /\ success(result)
                <=> (result.errors = <<>> \/ result.components_indexed # <<>>)
           /\ call.indexer \in {"raise", "raise_mid"} => ~success(result)
           /\ (Fetches # <<>> /\ FetchedOk = <<>>) => ~success(result)
           /\ call.branch = "unknown" => ~success(result)

C7_Witness ==
    /\ Reconciled
    /\ result.returned
    /\ result.errors # <<>>
    /\ result.components_indexed # <<>>
    /\ success(result)

\* C8: whatever fails in a fetch collaborator or in the Mirror Indexer,
\* ensure_data_ready returns a result; no exception or exit reaches the
\* caller.
C8_NoFaultEscapes == Reconciled => result.returned

\* C9: when a fetch succeeded and the indexer raises, the fetched components
\* are reported updated, none indexed, the indexing failure adds one error,
\* and every artifact the call wrote stays on disk as written.
C9_IndexFailureNoRollback ==
    (Reconciled /\ call.indexer \in {"raise", "raise_mid"})
        => /\ result.returned
           /\ FetchedOk # <<>>
           /\ result.components_updated = FetchedOk
           /\ result.components_indexed = <<>>
           /\ Len(result.errors) = Cardinality(FetchFailed) + 1
           /\ result.errors[Len(result.errors)] = <<"indexing">>
           /\ disk[Key].folder
           /\ \A c \in Range(FetchedOk) :
                WrittenAt(disk[Key], c, result.jurisdiction, call.at)

C9_Witness ==
    /\ Reconciled
    /\ call.indexer = "raise"
    /\ Len(FetchedOk) >= 2
    /\ ~call.before.folder
    /\ disk[Key].folder

\* C10: an artifact file that is there without a usable fetched-at field
\* evaluates to exists and not fresh, with no age; an absent file to not
\* exists and not fresh; the evaluation does not raise.
ProbedFile ==
    IF probe.component = "unstructured" THEN disk[ProbeTicker].json
    ELSE disk[ProbeTicker].structured[probe.component]

TimestampLost(file) ==
    file.exists /\ file.meta.kind \notin {"aware", "naive"}

C10_FailSafeStale ==
    (probe.made /\ (probe.component # "unstructured" \/ probe.jurisdiction = "US"))
        => /\ ~probe.res.raised
           /\ ~ProbedFile.exists
                => ~probe.res.exists /\ ~probe.res.is_fresh
           /\ TimestampLost(ProbedFile)
                => /\ probe.res.exists
                   /\ ~probe.res.is_fresh
                   /\ ~probe.res.has_age

C10_Witness ==
    /\ probe.made
    /\ probe.component = "price"
    /\ ProbedFile.exists
    /\ ProbedFile.meta.kind = "corrupt"
    /\ probe.res.exists
    /\ ~probe.res.is_fresh

\* C11: for an artifact that is not rewritten, the age an evaluation reports
\* is not less than the age an earlier evaluation reported, is_fresh is
\* exactly age < policy (an age equal to the policy is stale), and an
\* artifact evaluated stale is stale in every later evaluation.
SameArtifactAgain ==
    /\ probe.made
    /\ probe.prev.made
    /\ probe.prev.component = probe.component
    /\ probe.prev.jurisdiction = probe.jurisdiction

C11_StalenessMonotone ==
    /\ (probe.made /\ probe.res.has_age)
            => (probe.res.is_fresh <=> probe.res.age < probe.res.policy)
    /\ SameArtifactAgain
            => /\ probe.at >= probe.prev.at
               /\ probe.prev.res.has_age
                    => /\ probe.res.has_age
                       /\ probe.res.age >= probe.prev.res.age
               /\ ~probe.prev.res.is_fresh => ~probe.res.is_fresh

C11_Witness ==
    /\ SameArtifactAgain
    /\ probe.prev.res.has_age
    /\ probe.prev.res.age = probe.prev.res.policy
    /\ ~probe.prev.res.is_fresh
    /\ probe.at > probe.prev.at
    /\ probe.res.age > probe.prev.res.age
    /\ ~probe.res.is_fresh

\* C12: stable_chunk_id gives, for equal (entity key, index, text), the same
\* identifier in every evaluation: the identifier an earlier run stored for
\* a chunk is the one computed now for that chunk, and no step of the
\* system (clock, call counter, index content, another process) changes the
\* identifier of any argument triple.
ChunkTexts == UNION {Range(split_text(v)) : v \in 1..MaxVersion}

ChunkArgs ==
    {<<t, i, x>> : t \in Tickers, i \in 0..3, x \in ChunkTexts}

\* the entries of the index that index_unstructured stored
StoredChunks(t) == {e \in index[t] : e.text \in ChunkTexts}

StoredIdsReproduced ==
    \A t \in Tickers : \A e \in StoredChunks(t) :
        \E i \in 0..3 : e.id = stable_chunk_id(t, i, e.text)

SameIdNextState ==
    \A a \in ChunkArgs :
        stable_chunk_id(a[1], a[2], a[3])' = stable_chunk_id(a[1], a[2], a[3])

C12_StableIdentity == []StoredIdsReproduced /\ [][SameIdNextState]_vars

C12_Witness ==
    /\ call.prev.indexer = "ok"
    /\ call.indexer = "ok"
    /\ Upper(call.prev.ticker) = Key
    /\ call.at > 0
    /\ \E e \in StoredChunks(Key) :
         e.id = stable_chunk_id(Key, 1, Text("risk", 1, 800))

\* C13: in the incremental branch a component is fetched if and only if it
\* is in the checklist and its Freshness Result, evaluated on the disk as the
\* call found it, says missing or stale; an existing and fresh component is
\* not fetched, and components_checked gives every checklisted component its
\* evaluated is_fresh.
Resolved == resolve_company(registry, call.ticker, call.cik, call.scrip_code)

\* the Freshness Result of component c at the start of the last call
FoundAtCall(c) ==
    check_component_freshness(call.before, c, Resolved.jurisdiction, call.at)

AllComponents == Range(ModelStructured) \cup {"unstructured"}

C13_IncrementalSelection ==
    (Reconciled /\ call.branch = "incremental")
        => /\ \A c \in AllComponents :
                c \in Range(Attempted)
                    <=> /\ c \in Range(Checklisted)
                        /\ ~FoundAtCall(c).exists \/ ~FoundAtCall(c).is_fresh
           /\ \A c \in Range(Checklisted) :
                (FoundAtCall(c).exists /\ FoundAtCall(c).is_fresh)
                    => c \notin Range(Attempted)
           /\ result.returned
                => /\ DOMAIN result.components_checked = Range(Checklisted)
                   /\ \A c \in Range(Checklisted) :
                        result.components_checked[c] = FoundAtCall(c).is_fresh

C13_Witness ==
    /\ Reconciled
    /\ call.branch = "incremental"
    /\ result.returned
    /\ Range(Checklisted) = {"price", "income_stmt"}
    /\ Attempted = <<"price">>
    /\ FoundAtCall("price").exists
    /\ ~result.components_checked["price"]
    /\ result.components_checked["income_stmt"]

\* C14: a reconciliation call invokes the Mirror Indexer at most once: once
\* when at least one fetch of the call succeeded, in either branch, and not
\* at all when no fetch succeeded or nothing needed fetching.
IndexCalls == Len(SelectSeq(call.trace, LAMBDA s : s.op = "index"))

C14_IndexOnce ==
    Reconciled
        => /\ IndexCalls <= 1
           /\ IndexCalls = 1 <=> FetchedOk # <<>>
           /\ (result.returned /\ result.components_updated = <<>>)
                => IndexCalls = 0
           /\ IndexCalls = 1 <=> call.indexer # "none"

C14_Witness ==
    /\ Reconciled
    /\ call.branch = "incremental"
    /\ Len(FetchedOk) >= 2
    /\ FetchFailed # {}
    /\ IndexCalls = 1

\* C15: for a key found in the registry, resolve_company with only cik
\* supplied returns jurisdiction US with that cik, with only scrip_code
\* supplied returns jurisdiction INDIA with that scrip_code, whatever the
\* registry records, and with neither returns the registry entry unchanged.
LookupKey == Upper(lookup.ticker)

C15_OverrideReclassifies ==
    (lookup.op = "resolve" /\ LookupKey \in DOMAIN registry)
        => LET entry == registry[LookupKey]
           IN  /\ (lookup.cik # NoId /\ lookup.scrip_code = NoId)
                    => lookup.res = CompanyInfo(entry.ticker, "US", lookup.cik,
                                                entry.scrip_code)
               /\ (lookup.cik = NoId /\ lookup.scrip_code # NoId)
                    => lookup.res = CompanyInfo(entry.ticker, "INDIA",
                                                entry.cik, lookup.scrip_code)
               /\ (lookup.cik = NoId /\ lookup.scrip_code = NoId)
                    => lookup.res = entry

C15_Witness ==
    /\ lookup.op = "resolve"
    /\ LookupKey = "TCS"
    /\ registry["TCS"].jurisdiction = "INDIA"
    /\ lookup.cik # NoId
    /\ lookup.scrip_code = NoId
    /\ lookup.res.jurisdiction = "US"
    /\ lookup.res.cik = lookup.cik

\* C16: for a key that is not in the registry, resolve_company returns an
\* entity of jurisdiction US when a cik is supplied and of jurisdiction INDIA
\* when a scrip_code is supplied; it returns None exactly when the key is
\* not in the registry and neither identifier is supplied.
C16_OutsideRegistry ==
    lookup.op = "resolve"
        => /\ ~lookup.res.found
                <=> /\ LookupKey \notin DOMAIN registry
                    /\ lookup.cik = NoId
                    /\ lookup.scrip_code = NoId
           /\ LookupKey \notin DOMAIN registry
                => /\ (lookup.cik # NoId /\ lookup.scrip_code = NoId)
                        => lookup.res = CompanyInfo(LookupKey, "US",
                                                    lookup.cik, NoId)
                   /\ (lookup.cik = NoId /\ lookup.scrip_code # NoId)
                        => lookup.res = CompanyInfo(LookupKey, "INDIA", NoId,
                                                    lookup.scrip_code)
                   /\ (lookup.cik # NoId /\ lookup.scrip_code # NoId)
                        => \/ lookup.res = CompanyInfo(LookupKey, "US",
                                                       lookup.cik, NoId)
                           \/ lookup.res = CompanyInfo(LookupKey, "INDIA",
                                                       NoId, lookup.scrip_code)

C16_Witness ==
    /\ lookup.op = "resolve"
    /\ lookup.ticker = "zzz"
    /\ LookupKey \notin DOMAIN registry
    /\ lookup.cik = NoId
    /\ lookup.scrip_code # NoId
    /\ lookup.res.found
    /\ lookup.res.ticker = "ZZZ"
    /\ lookup.res.jurisdiction = "INDIA"

\* C17: register_company raises for a US registration without cik and for an
\* INDIA registration without scrip_code and leaves the registry as it was;
\* an accepted registration changes the entry of the uppercased key only,
\* and every later lookup of that key gives the registered entity.
C17_RegistrationValidated ==
    /\ lookup.op = "register"
            => /\ lookup.raised
                    <=> \/ lookup.jurisdiction = "US" /\ lookup.cik = NoId
                        \/ lookup.jurisdiction = "INDIA"
                              /\ lookup.scrip_code = NoId
               /\ lookup.raised => registry = lookup.before
               /\ ~lookup.raised
                    => /\ lookup.res = CompanyInfo(LookupKey,
                                                   lookup.jurisdiction,
                                                   lookup.cik,
                                                   lookup.scrip_code)
                       /\ DOMAIN registry
                            = DOMAIN lookup.before \cup {LookupKey}
                       /\ registry[LookupKey] = lookup.res
                       /\ \A t \in DOMAIN lookup.before \ {LookupKey} :
                            registry[t] = lookup.before[t]
    /\ (/\ lookup.op \in {"get", "resolve"}
        /\ lookup.cik = NoId
        /\ lookup.scrip_code = NoId
        /\ lookup.last.made
        /\ lookup.last.info.ticker = LookupKey)
            => lookup.res = lookup.last.info

C17_Witness ==
    /\ lookup.op = "get"
    /\ lookup.ticker = "zzz"
    /\ lookup.last.made
    /\ lookup.last.info.ticker = "ZZZ"
    /\ lookup.res = lookup.last.info
    /\ lookup.registered >= 2

\* C18: a reconciliation call for an entity reads and writes only that
\* entity's disk subtree and upserts only into the namespace of its key:
\* every step changes the subtree and namespace of the stepping call's
\* entity only, and when a call is done, however the steps of the other
\* call fell between its own, its entity's subtree, its namespace and its
\* result are those of the same call run alone.
AloneOf(p) ==
    reconcile_alone(procs[p].ticker, procs[p].checklist,
                    procs[p].force_refresh, procs[p].failing,
                    procs[p].outcome, procs[p].start.ent, procs[p].start.ns,
                    now, source)

SameAsAlone ==
    \A p \in Procs :
        (procs # NoProcs /\ procs[p].pc = "done")
            => /\ disk[procs[p].ticker] = AloneOf(p).disk
               /\ index[procs[p].ticker] = AloneOf(p).index
               /\ procs[p].result = AloneOf(p).result
               /\ procs[p].outcome \in IndexOutcomes(apiKey, FALSE) \cup {"none"}

OwnEntityOnly ==
    \A t \in Tickers :
        (disk'[t] # disk[t] \/ index'[t] # index[t])
            => /\ procs # NoProcs
               /\ \E p \in Procs : procs'[p] # procs[p] /\ procs[p].ticker = t

C18_CrossEntityIsolation == []SameAsAlone /\ [][OwnEntityOnly]_vars

C18_Witness ==
    /\ procs # NoProcs
    /\ \A p \in Procs :
         /\ procs[p].pc = "done"
         /\ procs[p].outcome = "ok"
         /\ procs[p].updated # <<>>
    /\ procs[1].branch = "incremental"
    /\ procs[2].branch = "full"
    /\ Len(procs[2].updated) >= 2
    /\ index["AAPL"] # {}
    /\ index["TCS"] # {}

\* C19: when a fetch collaborator returns for a component, the artifact on
\* disk carries the time of the fetch as its fetched-at timestamp, and a
\* freshness evaluation made right after the call's fetches reports the
\* component as existing and fresh, for structured components and for the
\* unstructured component of both jurisdictions.
AfterFetch(c) ==
    check_component_freshness(disk[Key], c, Resolved.jurisdiction, call.at)

\* the second half of C19 on its own
FreshAfterFetch ==
    Reconciled
        => \A c \in Range(FetchedOk) :
              AfterFetch(c).exists /\ AfterFetch(c).is_fresh

C19_FetchPostcondition ==
    Reconciled
        => \A c \in Range(FetchedOk) :
              /\ AfterFetch(c).exists
              /\ AfterFetch(c).has_age
              /\ AfterFetch(c).fetched_at = call.at
              /\ AfterFetch(c).is_fresh

\* C20: no operation of InferenceReader (retrieve, retrieve_by_category,
\* check_namespace_exists, get_namespace_stats, and its construction)
\* changes the content of the index or any artifact on disk, so index and
\* disk after any sequence of reader operations are those before it.
ReaderLeavesData == index' = index /\ disk' = disk

C20_ReaderReadOnly == [][ReaderLeavesData]_vars

C20_Witness ==
    /\ read.ready
    /\ read.op = "retrieve_by_category"
    /\ read.category = "narrative"
    /\ Cardinality(read.matches) = 2
    /\ Cardinality(index[Upper(read.ticker)]) > 2
    /\ disk[Upper(read.ticker)].folder

\* C21: when both cik and scrip_code are supplied in one resolve_company
\* call, the identifier applied last in the fixed order (cik, then
\* scrip_code) decides the jurisdiction, and the same identifier type wins
\* whether or not the key is in the registry: the call gives the
\* jurisdiction the same identifiers give for every other key.
BothSupplied == lookup.cik # NoId /\ lookup.scrip_code # NoId

C21_OverridePrecedence ==
    (lookup.op = "resolve" /\ BothSupplied)
        => /\ lookup.res.jurisdiction = "INDIA"
           /\ \A t \in LookupTickers :
                resolve_company(registry, t, lookup.cik,
                                lookup.scrip_code).jurisdiction
                    = lookup.res.jurisdiction

\* C22: resolve_company never changes the registry: a resolve step, with
\* any overrides, leaves the registry as it found it, and a resolve of the
\* same key without overrides that follows a resolve step returns the entry
\* (jurisdiction and identifiers) the registry held before the first of the
\* two.
ResolveLeavesRegistry == lookup'.op = "resolve" => registry' = registry

SameKeyNoOverrides ==
    /\ lookup.op = "resolve"
    /\ lookup'.op = "resolve"
    /\ Upper(lookup'.ticker) = LookupKey
    /\ lookup'.cik = NoId
    /\ lookup'.scrip_code = NoId

LaterResolveOriginal ==
    SameKeyNoOverrides
        => lookup'.res = get_company_info(lookup.before, lookup.ticker)

C22_ResolverPure == [][ResolveLeavesRegistry /\ LaterResolveOriginal]_vars

\* a resolve of TCS without overrides gives the INDIA entry of the registry
\* right after a resolve of TCS that reclassified it as US
C22_Witness ==
    /\ lookup.op = "resolve"
    /\ LookupKey = "TCS"
    /\ lookup.cik = NoId
    /\ lookup.scrip_code = NoId
    /\ lookup.res = InitialRegistry["TCS"]
    /\ registry = InitialRegistry
    /\ lookup.prev.op = "resolve"
    /\ Upper(lookup.prev.ticker) = "TCS"
    /\ lookup.prev.cik # NoId
    /\ lookup.prev.scrip_code = NoId

\* C23: a call for a resolvable entity takes the full-onboarding branch if
\* and only if the entity's folder does not exist or force_refresh is set;
\* in that branch no freshness evaluation is made, every component of the
\* checklist is fetched, in order, whatever the freshness of its artifact,
\* and components_checked maps every component of the checklist to false.
FreshnessSteps == SelectSeq(call.trace, LAMBDA s : s.op = "freshness")

C23_FullBranch ==
    (Reconciled /\ call.branch # "unknown")
        => /\ call.branch = "full"
                <=> (~call.before.folder \/ call.force_refresh)
           /\ call.branch = "full"
                => /\ FreshnessSteps = <<>>
                   /\ Attempted = Checklisted
                   /\ result.returned
                        => /\ result.folder_existed = call.before.folder
                           /\ DOMAIN result.components_checked
                                = Range(Checklisted)
                           /\ \A c \in Range(Checklisted) :
                                ~result.components_checked[c]

\* a forced refresh of an entity whose folder exists fetches a component
\* that a freshness evaluation would have reported fresh
C23_Witness ==
    /\ Reconciled
    /\ call.branch = "full"
    /\ call.force_refresh
    /\ call.before.folder
    /\ result.returned
    /\ result.folder_existed
    /\ "price" \in Range(Checklisted)
    /\ FoundAtCall("price").exists
    /\ FoundAtCall("price").is_fresh
    /\ "price" \in Range(Attempted)
    /\ ~result.components_checked["price"]

\* C24: the engine retries nothing: within one reconciliation call, whose
\* checklist names each component once, the fetch collaborator of each
\* component is invoked at most once, whether it returned or raised, and an
\* invocation of the Mirror Indexer that failed is not repeated.
FetchesOf(c) == SelectSeq(Fetches, LAMBDA s : s.component = c)

C24_NoRetry ==
    Reconciled
        => /\ \A c \in AllComponents : Len(FetchesOf(c)) <= 1
           /\ \A c \in FetchFailed : c \notin Range(FetchedOk)
           /\ IndexCalls <= 1
           /\ call.indexer \in {"raise", "raise_mid", "exit"} => IndexCalls = 1

\* a call in which one fetch raised, another returned and the indexer
\* raised: one attempt at each
C24_Witness ==
    /\ Reconciled
    /\ result.returned
    /\ "price" \in FetchFailed
    /\ Len(FetchesOf("price")) = 1
    /\ "income_stmt" \in Range(FetchedOk)
    /\ call.indexer = "raise"
    /\ IndexCalls = 1
    /\ ErrorsAbout("price") = 1
    /\ result.components_indexed = <<>>

\* C25: the Mirror Indexer keeps one index entry per (entity key,
\* statement type, fiscal period): a namespace never holds two entries of
\* the same statement type and period, every such entry is identified by the
\* key, the type and the period only, and after an indexing that returned
\* each period found on disk has exactly one entry, with the text now on
\* disk, so a refresh that changed the text of a period replaced its entry.
Narrated(t) == {e \in index[t] : "report_type" \in DOMAIN e}

OfPeriod(t, rt, d) ==
    {e \in Narrated(t) : e.report_type = rt /\ e.fiscal_date = d}

ProbedDir == disk[ProbeTicker].raw

Dated == {p \in ProbedDir.pdfs : p.kind \in {"dash", "compact"}}

IsLatest(t, S) == t \in S /\ \A x \in S : x <= t

C26_IndiaUnstructured ==
    (probe.made /\ probe.component = "unstructured"
                /\ probe.jurisdiction = "INDIA")
        => /\ ~probe.res.exists
                <=> (~ProbedDir.exists \/ ProbedDir.pdfs = {})
           /\ probe.res.exists
                => /\ probe.res.has_age
                   /\ Dated # {}
                        => IsLatest(probe.res.fetched_at, {p.d : p \in Dated})
                   /\ Dated = {}
                        => IsLatest(probe.res.fetched_at,
                                    {p.mtime : p \in ProbedDir.pdfs})
                   /\ probe.res.age = probe.at - probe.res.fetched_at

\* a directory with a file whose name gives no date and a newer modification
\* time than the date the other file's name gives
C26_Witness ==
    /\ probe.made
    /\ probe.component = "unstructured"
    /\ probe.jurisdiction = "INDIA"
    /\ ProbedDir.pdfs = {Pdf("bad", 0, 24), Pdf("compact", 0, 0)}
    /\ probe.res.exists
    /\ probe.res.fetched_at = 0
    /\ probe.at = 24

\* C27: freshness evaluation is pure: an evaluation by
\* check_component_freshness or check_all_freshness leaves every artifact
\* on disk and the index as they were, and an evaluation of the same
\* components for the same jurisdiction at the same clock value as the
\* evaluation before it, over the same disk, returns an equal result.
SameProbeAgain ==
    /\ probe.made
    /\ probe'.made
    /\ probe'.component = probe.component
    /\ probe'.jurisdiction = probe.jurisdiction
    /\ probe'.at = probe.at
    /\ DOMAIN probe'.res = DOMAIN probe.res
    /\ disk' = disk

EvaluationPure ==
    probe' # probe
        => /\ disk' = disk
           /\ index' = index
           /\ SameProbeAgain => probe'.res = probe.res

C27_FreshnessPure == [][EvaluationPure]_vars

\* check_all_freshness evaluated twice over an entity with an artifact on
\* disk, with equal results
C27_Witness ==
    /\ probe.made
    /\ probe.component = "all"
    /\ probe.prev.made
    /\ probe.prev.component = "all"
    /\ probe.prev.jurisdiction = probe.jurisdiction
    /\ probe.prev.at = probe.at
    /\ probe.prev.res = probe.res
    /\ DOMAIN probe.res = {"price", "income_stmt", "unstructured"}
    /\ probe.res["price"].exists
    /\ probe.res["unstructured"].exists
    /\ probe.at = 24

\* C28: the Mirror Indexer never upserts an entry whose text is no string
\* or has 50 characters or fewer once stripped; a run of the indexer over
\* files that hold such units returns without raising, and every unit of
\* the entity with a valid text, chunk of the narrative or period of a
\* statement, has its entry in the index afterwards.
ValidRecords(ent) == {r \in AllRecords(ent) : valid_text(r.text)}

NoShortEntry ==
    \A t \in Tickers :
        \A e \in index[t] : IsStr(e.text) /\ StrippedLen(e.text) > 50

ValidUnitsUpserted ==
    /\ unstructured_entries(Key, disk[Key]) \subseteq index[Key]
    /\ \A r \in ValidRecords(disk[Key]) :
          \E e \in OfPeriod(Key, r.report_type, r.date) : e.text = r.text

C28_ShortTextSkip ==
    /\ NoShortEntry
    /\ call.branch = "indexer"
          => /\ call.indexer = "ok"
             /\ ValidUnitsUpserted

\* C29: the returned result alone tells three outcomes of a call apart:
\* nothing needed doing (errors empty, components_updated empty), every
\* fetch failed (errors non-empty, components_updated empty, success
\* false), partial success (errors non-empty, components_indexed non-empty,
\* success true); the tuple (errors empty, updated empty, indexed empty,
\* success) of each is its own, and a result of a resolved call that shows
\* one of the three tuples comes from that outcome.
NothingNeeded == call.branch \in {"full", "incremental"} /\ Fetches = <<>>

EverythingFailed == Fetches # <<>> /\ FetchedOk = <<>>

PartialSuccess ==
    /\ FetchedOk # <<>>
    /\ FetchFailed # {}
    /\ call.indexer = "ok"

Outcome ==
    <<result.errors = <<>>, result.components_updated = <<>>,
      result.components_indexed = <<>>, success(result)>>

C29_Distinguishable ==
    (Reconciled /\ result.returned /\ call.branch # "unknown")
        => /\ NothingNeeded <=> Outcome = <<TRUE, TRUE, TRUE, TRUE>>
           /\ EverythingFailed <=> Outcome = <<FALSE, TRUE, TRUE, FALSE>>
           /\ PartialSuccess <=> Outcome = <<FALSE, FALSE, FALSE, TRUE>>

\* a call with one fetch failed and one indexed, after a call for the same
\* key in which every fetch failed
C29_Witness ==
    /\ Reconciled
    /\ result.returned
    /\ PartialSuccess
    /\ Outcome = <<FALSE, FALSE, FALSE, TRUE>>
    /\ Len(result.errors) = 1
    /\ call.branch = "full"
    /\ ~call.force_refresh
    /\ call.prev.branch = "full"
    /\ Upper(call.prev.ticker) = Key

\* C30: entity keys are folded to upper case: a reconciliation call returns
\* a result whose ticker is the uppercased key, resolves the entity the
\* uppercased key resolves to, and reads and writes the folder and the
\* namespace of the uppercased key, so a call whose key differs from the
\* key of the call before it in letter case only finds what that call left;
\* register_company stores and get_company_info looks up under the
\* uppercased key.
OtherCaseBefore ==
    /\ call.prev.branch \in {"full", "incremental"}
    /\ Upper(call.prev.ticker) = Key
    /\ call.prev.ticker # call.ticker

CaseFolded ==
    (Reconciled /\ result.returned)
        => /\ result.ticker = Key
           /\ Key \in Tickers
           /\ Resolved = resolve_company(registry, Key, call.cik,
                                         call.scrip_code)
           /\ call.branch # "unknown"
                => /\ result.jurisdiction = registry[Key].jurisdiction
                   /\ result.folder_existed = call.before.folder
                   /\ call.indexer = "ok"
                        => Derivable(Key, disk[Key]) \subseteq index[Key]
           /\ (OtherCaseBefore /\ call.prev.indexer # "none")
                => /\ call.branch # "unknown"
                   /\ result.folder_existed
                   /\ call.force_refresh <=> call.branch = "full"

RegistryFolded ==
    /\ DOMAIN registry \subseteq Tickers
    /\ lookup.op = "get"
          => lookup.res = IF LookupKey \in DOMAIN registry
                          THEN registry[LookupKey] ELSE NoInfo
    /\ (lookup.op = "register" /\ ~lookup.raised)
          => /\ lookup.res.ticker = LookupKey
             /\ registry[LookupKey] = lookup.res

C30_KeyNormalization == CaseFolded /\ RegistryFolded

\* a call under the lower-case key, on the incremental branch, right after a
\* call under the upper-case key that created the folder and indexed, for an
\* entity registered under the lower-case key
C30_Witness ==
    /\ Reconciled
    /\ result.returned
    /\ call.ticker = "zzz"
    /\ call.prev.ticker = "ZZZ"
    /\ call.prev.indexer = "ok"
    /\ call.branch = "incremental"
    /\ result.ticker = "ZZZ"
    /\ result.folder_existed
    /\ lookup.last.made
    /\ lookup.last.info.ticker = "ZZZ"
    /\ index["ZZZ"] # {}
    /\ disk["ZZZ"].folder

\* C31: every Freshness Result, whether the artifact is missing, has no
\* timestamp, is fresh or is stale, carries the maximum age configured for
\* its component: price 24 hours, income_stmt, balance_sheet and cash_flow
\* 90 days, info 7 days, unstructured 365 days; only components of this
\* closed set are evaluated, so none meets a policy that is not its own.
Configured ==
    [c \in {"price", "income_stmt", "balance_sheet", "cash_flow", "info",
            "unstructured"} |->
        CASE c = "price" -> 24
          [] c = "info" -> 7 * 24
          [] c = "unstructured" -> 365 * 24
          [] OTHER -> 90 * 24]

OwnPolicy(c, res) == c \in DOMAIN Configured /\ res.policy = Configured[c]

C31_OnePolicyPerComponent ==
    probe.made
        => IF probe.component = "all"
           THEN \A c \in DOMAIN probe.res : OwnPolicy(c, probe.res[c])
           ELSE OwnPolicy(probe.component, probe.res)

\* the results of the configured components alone
ConfiguredOwnPolicy ==
    probe.made
        => IF probe.component = "all"
           THEN \A c \in DOMAIN probe.res \cap DOMAIN Configured :
                    OwnPolicy(c, probe.res[c])
           ELSE probe.component \in DOMAIN Configured
                    => OwnPolicy(probe.component, probe.res)

\* C32: two calls for the same entity exclude each other nowhere: while one
\* call is between its first fetch and its index call, the other call can
\* start, check the disk and fetch, whatever step it is at; so both can be
\* between first fetch and index call at once, and for a new entity both
\* can take the full-onboarding branch and fetch the same component.
MidFlight(p) ==
    /\ procs[p].pc = "fetching"
    /\ procs[p].updated # <<>> \/ procs[p].errors # <<>>

OtherProc(p) == CHOOSE q \in Procs : q # p

C32_NoMutualExclusion ==
    \A p \in Procs :
        MidFlight(OtherProc(p))
            => /\ procs[p].pc = "idle" => ENABLED StartSame(p)
               /\ procs[p].pc = "resolved" => ENABLED CheckDisk(p)
               /\ (procs[p].pc = "fetching" /\ procs[p].todo # <<>>)
                    => ENABLED FetchNext(p)

\* both calls found no folder, took the full branch without force_refresh,
\* fetched price, and neither has reached the indexer
C32_Witness ==
    \A p \in Procs :
        /\ MidFlight(p)
        /\ procs[p].ticker = SameTicker
        /\ procs[p].branch = "full"
        /\ ~procs[p].force_refresh
        /\ ~procs[p].folder_existed
        /\ "price" \in Range(procs[p].updated)

\* C33: in every result ensure_data_ready returns, components_indexed is
\* empty or equal to components_updated, every member of components_updated
\* is a component of the checklist, and on the incremental branch no
\* component that components_checked reports fresh is in components_updated.
C33_ResultShape ==
    (Reconciled /\ result.returned)
        => /\ \/ result.components_indexed = <<>>
              \/ result.components_indexed = result.components_updated
           /\ Range(result.components_updated) \subseteq Range(Checklisted)
           /\ call.branch = "incremental"
                => \A c \in Range(result.components_updated) :
                      /\ c \in DOMAIN result.components_checked
                      /\ ~result.components_checked[c]

\* an incremental call that updated and indexed the stale component and
\* left the fresh one alone
C33_Witness ==
    /\ Reconciled
    /\ result.returned
    /\ call.branch = "incremental"
    /\ result.components_updated = <<"price">>
    /\ result.components_indexed = <<"price">>
    /\ "income_stmt" \in Range(Checklisted)
    /\ result.components_checked["income_stmt"]
    /\ ~result.components_checked["price"]

\* C34: with the registry changed by register_company only, every entity
\* resolve_company returns has a cik when its jurisdiction is US and a
\* scrip_code when it is INDIA, for every key and every combination of
\* overrides, and so has every entry of the registry; hence the test of the
\* identifier in _fetch_unstructured never raises for an entity that
\* ensure_data_ready resolved.
HasIdentifier(info) ==
    /\ info.jurisdiction \in {"US", "INDIA"}
    /\ info.jurisdiction = "US" => info.cik # NoId
    /\ info.jurisdiction = "INDIA" => info.scrip_code # NoId

ResolvableAs(t, c, s) == resolve_company(registry, t, c, s)

C34_IdentifierAvailable ==
    /\ \A t \in DOMAIN registry : HasIdentifier(registry[t])
    /\ (lookup.op = "resolve" /\ lookup.res.found)
          => HasIdentifier(lookup.res) /\ ~IdentifierMissing(lookup.res)
    /\ \A t \in LookupTickers, c \in Ciks, s \in Scrips :
          ResolvableAs(t, c, s).found
              => ~FetchRaises(ResolvableAs(t, c, s), "unstructured", {})

\* a US entry reclassified by a scrip_code override, after two registrations
C34_Witness ==
    /\ lookup.op = "resolve"
    /\ lookup.registered >= 2
    /\ LookupKey \in DOMAIN registry
    /\ registry[LookupKey].jurisdiction = "US"
    /\ registry[LookupKey].scrip_code = NoId
    /\ lookup.cik = NoId
    /\ lookup.scrip_code # NoId
    /\ lookup.res.jurisdiction = "INDIA"
    /\ lookup.res.scrip_code = lookup.scrip_code
    /\ LookupKey = "ZZZ"

\* the position of a collaborator step in the order of one reconciliation
StepRank(op) ==
    CASE op = "resolve" -> 0
      [] op = "exists" -> 1
      [] op = "freshness" -> 2
      [] op = "fetch" -> 3
      [] op = "index" -> 4

StepsOf(op) == SelectSeq(call.trace, LAMBDA s : s.op = op)

\* C35: within one reconciliation the entity is resolved first and the disk
\* is looked at only afterwards, never for an unknown entity; every freshness
\* evaluation of the incremental branch precedes the first fetch; the fetches
\* follow the checklist, structured components in their order and the
\* unstructured component last; the Mirror Indexer is invoked at most once,
\* after the last fetch attempt has returned or raised.
C35_CallOrdering ==
    Reconciled =>
        /\ call.trace # <<>>
        /\ call.trace[1].op = "resolve"
        /\ Len(StepsOf("resolve")) = 1
        /\ ~call.trace[1].ok => Len(call.trace) = 1
        /\ \A i \in 1..(Len(call.trace) - 1) :
              StepRank(call.trace[i].op) <= StepRank(call.trace[i + 1].op)
        /\ Len(StepsOf("exists")) <= 1
        /\ Len(StepsOf("index")) <= 1
        /\ StepsOf("index") # <<>> => call.trace[Len(call.trace)].op = "index"
        /\ StepsOf("freshness") # <<>> => call.branch = "incremental"
        /\ Attempted = SelectSeqBy(Checklisted, Range(Attempted))
        /\ \A i \in 1..(Len(Attempted) - 1) : Attempted[i] # "unstructured"

\* an incremental call that evaluated every component, fetched a structured
\* one and then the filings, the second fetch raising, and indexed last
C35_Witness ==
    /\ Reconciled
    /\ call.branch = "incremental"
    /\ Len(StepsOf("freshness")) = Len(Checklisted)
    /\ Len(Attempted) >= 2
    /\ Attempted[Len(Attempted)] = "unstructured"
    /\ "unstructured" \in FetchFailed
    /\ call.trace[Len(call.trace)].op = "index"

\* the fetch invocations of the last call that raised, and whether its
\* Mirror Indexer invocation raised
FetchesRaised == SelectSeq(Fetches, LAMBDA s : ~s.ok)

IndexRaised == SelectSeq(call.trace, LAMBDA s : s.op = "index" /\ ~s.ok) # <<>>

\* C36: the result of a call on a resolvable entity holds one error for each
\* fetch invocation that raised, in their order, and one more, the last, if
\* the Mirror Indexer invocation raised; a component whose fetch returned has
\* no error about it, and a component whose fetch raised is not among
\* components_updated.
C36_ErrorAccounting ==
    (Reconciled /\ result.returned /\ call.branch # "unknown") =>
        /\ Len(result.errors)
             = Len(FetchesRaised) + (IF IndexRaised THEN 1 ELSE 0)
        /\ \A i \in 1..Len(FetchesRaised) :
              result.errors[i] = <<"fetching", FetchesRaised[i].component>>
        /\ IndexRaised => result.errors[Len(result.errors)] = <<"indexing">>
        /\ \A c \in Range(FetchedOk) : ErrorsAbout(c) = 0
        /\ FetchFailed \cap Range(result.components_updated) = {}
        /\ Range(FetchedOk) = Range(result.components_updated)

\* two fetches raised, one returned, and the indexer raised: three errors
C36_Witness ==
    /\ Reconciled
    /\ result.returned
    /\ Len(FetchesRaised) = 2
    /\ IndexRaised
    /\ Len(result.errors) = 3
    /\ result.components_updated = <<"income_stmt">>

\* the texts get_context joined are the first matches, in their order, the
\* last of them cut to the characters that were left and marked with "..."
ContextInOrder ==
    read.op = "get_context" =>
        /\ Len(read.texts) <= Len(read.matches)
        /\ \A i \in 1..Len(read.texts) :
              \/ read.texts[i] = read.matches[i]
              \/ /\ i = Len(read.texts)
                 /\ \E n \in 101..Len(read.matches[i]) :
                       read.texts[i] = SubSeq(read.matches[i], 1, n) \o Ellipsis
        /\ read.context = Join(ContextSeparator, read.texts)

\* the characters of the matches' own that the context holds: the count
\* that get_context compares with max_chars
CharsIncluded ==
    Len(read.context)
      - (IF read.texts = <<>> THEN 0
         ELSE Len(ContextSeparator) * (Len(read.texts) - 1))
      - (IF Len(read.texts) > 0
            /\ read.texts[Len(read.texts)] # read.matches[Len(read.texts)]
         THEN Len(Ellipsis) ELSE 0)

\* what get_context does bound: the characters taken from the matches
ContextCharsBounded ==
    read.op = "get_context" => CharsIncluded <= read.max_chars

\* C37: for every list of matches and every max_chars, get_context returns a
\* string of at most max_chars characters, made of the matches in their
\* order with no earlier match skipped for a later one.
C37_ContextLengthBound ==
    read.op = "get_context" =>
        /\ Len(read.context) <= read.max_chars
        /\ ContextInOrder

\* the kind of the last response of the loop, "" before the first request
LastResponse == IF http.log = <<>> THEN "" ELSE http.log[Len(http.log)]

\* every request but the last one made ended in a RequestException, and each
\* was followed by a sleep of 2 ** attempt seconds
OnlyFailuresRetried ==
    /\ \A i \in 1..(Len(http.log) - 1) : http.log[i] = "RequestException"
    /\ \A i \in 1..Len(http.slept) : http.slept[i] = 2 ^ (i - 1)
    /\ Len(http.slept) = IF http.pc = "loop" THEN Len(http.log)
                         ELSE IF http.log = <<>> THEN 0
                         ELSE Len(http.log) - 1

RetryAccounting ==
    http.fn # "none" =>
        /\ http.requests = Len(http.log)
        /\ http.requests <= http.retries
        /\ OnlyFailuresRetried
        /\ http.pc = "loop" =>
              /\ http.attempt = http.requests
              /\ LastResponse \in {"", "RequestException"}
        /\ http.pc = "returned" => LastResponse = "ok" /\ http.value.found
        /\ http.pc = "raised" =>
              \/ /\ http.error = <<"RuntimeError", FailedMessage(http.fn),
                                   http.retries>>
                 /\ LastResponse = "RequestException"
                 /\ http.requests = http.retries
              \/ /\ http.error = <<"RuntimeError", NotFoundMessage(http.fn)>>
                 /\ \/ LastResponse = "ok"
                    \/ http.retries = 0 /\ http.requests = 0
              \/ /\ http.error = <<"KeyError">>
                 /\ LastResponse = "KeyError"

\* a function that was called returns or raises
RetryTerminates == (http.pc = "loop") ~> (http.pc \in {"returned", "raised"})

\* C38: get_latest_10k_metadata and find_real_10k_html make at most
\* `retries` requests and always return or raise; a request that fails
\* before the last attempt is followed by another attempt, one that fails on
\* the last attempt by the RuntimeError that counts the attempts, and a
\* response holding no 10-K filing (no narrative HTML) by its RuntimeError
\* at once, with no further request.
C38_BoundedRetry == []RetryAccounting /\ RetryTerminates

\* three requests failed, with sleeps of 1 and 2 seconds between them
C38_Witness ==
    /\ http.fn = "get_latest_10k_metadata"
    /\ http.pc = "raised"
    /\ http.retries = 3
    /\ http.log = <<"RequestException", "RequestException", "RequestException">>
    /\ http.slept = <<1, 2>>
    /\ http.error = <<"RuntimeError", "Failed to fetch SEC metadata", 3>>

\* a response without a 10-K after one failed request: no third request
NoFilingRaisesAtOnce ==
    /\ http.fn = "get_latest_10k_metadata"
    /\ http.pc = "raised"
    /\ http.retries = 3
    /\ http.log = <<"RequestException", "ok">>
    /\ http.error = <<"RuntimeError", "No 10-K filing found.">>

====
